---------------------------- MODULE Spec2Model ----------------------------
(***************************************************************************)
(* Warrant evaluation engine of the MUTCD 2009 signal warrant checker      *)
(* (src/app.py).  The evaluators are functions of a traffic series, of     *)
(* scalar site inputs and of the module-level threshold tables.  The state *)
(* machine holds the caller's traffic series, the tables (Python dicts and *)
(* lists, which any code that holds them could write) and the record of    *)
(* the last call: which function, the arguments it was given, and what it  *)
(* returned.                                                               *)
(*                                                                         *)
(* Numbers.  Volumes and counts are integers.  Interpolated thresholds and *)
(* the mean of the top-4 hours are Python floats; here they are exact      *)
(* rationals [num, den] in lowest terms with den > 0.  None is modelled by *)
(* the string "None" where the other values are strings, and by a record   *)
(* with kind = "None" where the other values are numbers.                  *)
(***************************************************************************)
EXTENDS Integers, Sequences, FiniteSets, TLC

VARIABLES
    traffic_df,   \* the caller's series: [is_none, rows]
    tables,       \* the module-level threshold tables, as they are now
    fn,           \* the evaluator called last, "none" before any call
    args,         \* the scalar arguments of that call
    result        \* the verdict record that call returned

vars == <<traffic_df, tables, fn, args, result>>

-----------------------------------------------------------------------------
(* Rational arithmetic standing for Python's float arithmetic.             *)

RECURSIVE GCD(_, _)
GCD(a, b) == IF b = 0 THEN a ELSE GCD(b, a % b)

Abs(n) == IF n < 0 THEN -n ELSE n

\* n/d in lowest terms, d # 0, with a positive denominator
Rat(n, d) ==
    LET s == IF d < 0 THEN -1 ELSE 1
        g == GCD(Abs(n), Abs(d))
    IN  [kind |-> "num", num |-> (s * n) \div g, den |-> (s * d) \div g]

Num(n) == [kind |-> "num", num |-> n, den |-> 1]

NoneNum == [kind |-> "None", num |-> 0, den |-> 1]

\* p >= q for two rationals
RatGeq(p, q) == p.num * q.den >= q.num * p.den

RatLt(p, q) == p.num * q.den < q.num * p.den

\* f"{q:.0f}": the nearest integer, a half going to the even neighbour
Format0f(q) ==
    LET fl == q.num \div q.den
        r2 == 2 * (q.num - fl * q.den)
    IN  IF r2 < q.den THEN fl
        ELSE IF r2 > q.den THEN fl + 1
        ELSE IF fl % 2 = 0 THEN fl ELSE fl + 1

\* Python's truth value of a threshold: None and 0 are false
Truthy(t) == t.kind = "num" /\ t.num # 0

PyBool(b) == IF b THEN "True" ELSE "False"

Max(a, b) == IF a >= b THEN a ELSE b

Min(a, b) == IF a <= b THEN a ELSE b

-----------------------------------------------------------------------------
(* MUTCD 2009 threshold data.  A point is <<major_vph, minor_vph>>.        *)

WARRANT1_THRESHOLDS ==
    [condition_a |->
        (<<1, 1>> :> ("100" :> <<500, 150>> @@ "80" :> <<400, 120>> @@ "70" :> <<350, 105>> @@ "56" :> <<280, 84>>)
      @@ <<2, 1>> :> ("100" :> <<600, 150>> @@ "80" :> <<480, 120>> @@ "70" :> <<420, 105>> @@ "56" :> <<336, 84>>)
      @@ <<2, 2>> :> ("100" :> <<600, 200>> @@ "80" :> <<480, 160>> @@ "70" :> <<420, 140>> @@ "56" :> <<336, 112>>)
      @@ <<1, 2>> :> ("100" :> <<500, 200>> @@ "80" :> <<400, 160>> @@ "70" :> <<350, 140>> @@ "56" :> <<280, 112>>)),
     condition_b |->
        (<<1, 1>> :> ("100" :> <<750, 75>> @@ "80" :> <<600, 60>> @@ "70" :> <<525, 53>> @@ "56" :> <<420, 42>>)
      @@ <<2, 1>> :> ("100" :> <<900, 75>> @@ "80" :> <<720, 60>> @@ "70" :> <<630, 53>> @@ "56" :> <<504, 42>>)
      @@ <<2, 2>> :> ("100" :> <<900, 100>> @@ "80" :> <<720, 80>> @@ "70" :> <<630, 70>> @@ "56" :> <<504, 56>>)
      @@ <<1, 2>> :> ("100" :> <<750, 100>> @@ "80" :> <<600, 80>> @@ "70" :> <<525, 70>> @@ "56" :> <<420, 56>>))]

WARRANT2_CURVES ==
    "100" :>
        (<<1, 1>> :> <<<<300, 115>>, <<400, 100>>, <<500, 90>>, <<600, 80>>, <<700, 70>>, <<800, 60>>, <<900, 50>>, <<1000, 40>>>>
      @@ <<2, 1>> :> <<<<400, 115>>, <<500, 100>>, <<600, 90>>, <<700, 80>>, <<800, 70>>, <<900, 60>>, <<1000, 50>>, <<1100, 40>>>>
      @@ <<2, 2>> :> <<<<400, 150>>, <<500, 135>>, <<600, 120>>, <<700, 105>>, <<800, 95>>, <<900, 85>>, <<1000, 75>>, <<1100, 65>>>>
      @@ <<1, 2>> :> <<<<300, 150>>, <<400, 135>>, <<500, 120>>, <<600, 105>>, <<700, 95>>, <<800, 85>>, <<900, 75>>, <<1000, 65>>>>)
 @@ "70" :>
        (<<1, 1>> :> <<<<210, 80>>, <<280, 70>>, <<350, 63>>, <<420, 56>>, <<490, 49>>, <<560, 42>>, <<630, 35>>, <<700, 28>>>>
      @@ <<2, 1>> :> <<<<280, 80>>, <<350, 70>>, <<420, 63>>, <<490, 56>>, <<560, 49>>, <<630, 42>>, <<700, 35>>, <<770, 28>>>>
      @@ <<2, 2>> :> <<<<280, 105>>, <<350, 95>>, <<420, 84>>, <<490, 74>>, <<560, 67>>, <<630, 60>>, <<700, 53>>, <<770, 46>>>>
      @@ <<1, 2>> :> <<<<210, 105>>, <<280, 95>>, <<350, 84>>, <<420, 74>>, <<490, 67>>, <<560, 60>>, <<630, 53>>, <<700, 46>>>>)

WARRANT3_CURVES ==
    "100" :>
        (<<1, 1>> :> <<<<400, 150>>, <<500, 135>>, <<600, 120>>, <<700, 105>>, <<800, 100>>, <<900, 100>>, <<1000, 100>>>>
      @@ <<2, 1>> :> <<<<500, 150>>, <<600, 135>>, <<700, 120>>, <<800, 105>>, <<900, 100>>, <<1000, 100>>, <<1100, 100>>>>
      @@ <<2, 2>> :> <<<<500, 200>>, <<600, 180>>, <<700, 160>>, <<800, 150>>, <<900, 150>>, <<1000, 150>>, <<1100, 150>>>>
      @@ <<1, 2>> :> <<<<400, 200>>, <<500, 180>>, <<600, 160>>, <<700, 150>>, <<800, 150>>, <<900, 150>>, <<1000, 150>>>>)
 @@ "70" :>
        (<<1, 1>> :> <<<<280, 105>>, <<350, 95>>, <<420, 84>>, <<490, 74>>, <<560, 70>>, <<630, 70>>, <<700, 70>>>>
      @@ <<2, 1>> :> <<<<350, 105>>, <<420, 95>>, <<490, 84>>, <<560, 74>>, <<630, 70>>, <<700, 70>>, <<770, 70>>>>
      @@ <<2, 2>> :> <<<<350, 140>>, <<420, 126>>, <<490, 112>>, <<560, 105>>, <<630, 105>>, <<700, 105>>, <<770, 105>>>>
      @@ <<1, 2>> :> <<<<280, 140>>, <<350, 126>>, <<420, 112>>, <<490, 105>>, <<560, 105>>, <<630, 105>>, <<700, 105>>>>)

WARRANT4_CURVES ==
    [four_hour_100 |-> <<<<300, 190>>, <<400, 150>>, <<500, 130>>, <<600, 115>>, <<700, 107>>, <<800, 100>>, <<900, 100>>, <<1000, 100>>>>,
     four_hour_70  |-> <<<<210, 133>>, <<280, 105>>, <<350, 91>>, <<420, 81>>, <<490, 75>>, <<560, 70>>, <<630, 70>>, <<700, 70>>>>,
     peak_hour_100 |-> <<<<300, 380>>, <<400, 300>>, <<500, 260>>, <<600, 230>>, <<700, 214>>, <<800, 200>>, <<900, 200>>, <<1000, 200>>>>,
     peak_hour_70  |-> <<<<210, 266>>, <<280, 210>>, <<350, 182>>, <<420, 161>>, <<490, 150>>, <<560, 140>>, <<630, 140>>, <<700, 140>>>>]

\* the four module-level tables as the module's import leaves them
StaticTables ==
    [WARRANT1_THRESHOLDS |-> WARRANT1_THRESHOLDS,
     WARRANT2_CURVES |-> WARRANT2_CURVES,
     WARRANT3_CURVES |-> WARRANT3_CURVES,
     WARRANT4_CURVES |-> WARRANT4_CURVES]

-----------------------------------------------------------------------------
(* Helpers of the evaluators.                                              *)

\* mutant: the lane counts are the key as they are
get_lane_key_Raw(major_lanes, minor_lanes) == <<major_lanes, minor_lanes>>

get_lane_key(major_lanes, minor_lanes) ==
    <<IF major_lanes = 1 THEN 1 ELSE 2, IF minor_lanes = 1 THEN 1 ELSE 2>>

\* mutant: the reduction starts at 40 mph itself
get_threshold_percentage_From40(speed, population, is_combination) ==
    LET has_reduction == speed >= 40 \/ population < 10000
    IN  IF is_combination
        THEN (IF has_reduction THEN "56" ELSE "80")
        ELSE (IF has_reduction THEN "70" ELSE "100")

\* mutant: the reduction asks for both conditions instead of either
get_threshold_percentage_And(speed, population, is_combination) ==
    LET has_reduction == speed > 40 /\ population < 10000
    IN  IF is_combination
        THEN (IF has_reduction THEN "56" ELSE "80")
        ELSE (IF has_reduction THEN "70" ELSE "100")

get_threshold_percentage(speed, population, is_combination) ==
    LET has_reduction == speed > 40 \/ population < 10000
    IN  IF is_combination
        THEN (IF has_reduction THEN "56" ELSE "80")
        ELSE (IF has_reduction THEN "70" ELSE "100")

\* sorted(curve_points, key=lambda x: x[0]): a stable sort on major_vph
RECURSIVE InsertByMajor(_, _)
InsertByMajor(p, s) ==
    IF s = <<>> THEN <<p>>
    ELSE IF s[Len(s)][1] <= p[1] THEN Append(s, p)
    ELSE Append(InsertByMajor(p, SubSeq(s, 1, Len(s) - 1)), s[Len(s)])

RECURSIVE InsertionSort(_)
InsertionSort(s) ==
    IF s = <<>> THEN <<>>
    ELSE InsertByMajor(s[Len(s)], InsertionSort(SubSeq(s, 1, Len(s) - 1)))

\* mutant: the curve is taken in the order given
SortedByMajor_AsGiven(s) == s

\* a stable sort returns a list already in order as it is
SortedByMajor(s) ==
    IF \A i \in 1..(Len(s) - 1) : s[i][1] <= s[i + 1][1] THEN s
    ELSE InsertionSort(s)

\* mutant: the slope of a segment with its sign turned
SegmentValue_Rising(p1, p2, major_vol) ==
    Rat(p1[2] * (p2[1] - p1[1]) * major_vol.den
            - (p2[2] - p1[2]) * (major_vol.num - p1[1] * major_vol.den),
        (p2[1] - p1[1]) * major_vol.den)

\* y1 + (y2 - y1) / (x2 - x1) * (major_vol - x1) on the segment p1..p2
SegmentValue(p1, p2, major_vol) ==
    Rat(p1[2] * (p2[1] - p1[1]) * major_vol.den
            + (p2[2] - p1[2]) * (major_vol.num - p1[1] * major_vol.den),
        (p2[1] - p1[1]) * major_vol.den)

\* mutant: below the first breakpoint the curve is extended flat instead of
\* giving None
interpolate_threshold_Clamp(curve_points, major_vol) ==
    LET points == SortedByMajor(curve_points)
        n      == Len(points)
        hits   == {i \in 1..(n - 1) :
                      /\ RatGeq(major_vol, Num(points[i][1]))
                      /\ RatLt(major_vol, Num(points[i + 1][1]))}
    IN  IF n = 0 THEN [kind |-> "IndexError", num |-> 0, den |-> 1]
        ELSE IF RatLt(major_vol, Num(points[1][1])) THEN Num(points[1][2])
        ELSE IF RatGeq(major_vol, Num(points[n][1])) THEN Num(points[n][2])
        ELSE IF hits # {}
             THEN LET i == CHOOSE k \in hits : \A j \in hits : k <= j
                  IN  SegmentValue(points[i], points[i + 1], major_vol)
        ELSE Num(points[n][2])

\* mutant: from the last breakpoint on, the last segment is carried on
\* instead of the curve being flat
interpolate_threshold_Extend(curve_points, major_vol) ==
    LET points == SortedByMajor(curve_points)
        n      == Len(points)
        hits   == {i \in 1..(n - 1) :
                      /\ RatGeq(major_vol, Num(points[i][1]))
                      /\ RatLt(major_vol, Num(points[i + 1][1]))}
    IN  IF n = 0 THEN [kind |-> "IndexError", num |-> 0, den |-> 1]
        ELSE IF RatLt(major_vol, Num(points[1][1])) THEN NoneNum
        ELSE IF RatGeq(major_vol, Num(points[n][1]))
             THEN IF n >= 2 /\ points[n - 1][1] < points[n][1]
                  THEN SegmentValue(points[n - 1], points[n], major_vol)
                  ELSE Num(points[n][2])
        ELSE IF hits # {}
             THEN LET i == CHOOSE k \in hits : \A j \in hits : k <= j
                  IN  SegmentValue(points[i], points[i + 1], major_vol)
        ELSE Num(points[n][2])

\* major_vol is a rational; the result is a rational, None, or the
\* IndexError that points[0] raises on an empty curve
interpolate_threshold(curve_points, major_vol) ==
    LET points == SortedByMajor(curve_points)
        n      == Len(points)
        hits   == {i \in 1..(n - 1) :
                      /\ RatGeq(major_vol, Num(points[i][1]))
                      /\ RatLt(major_vol, Num(points[i + 1][1]))}
    IN  IF n = 0 THEN [kind |-> "IndexError", num |-> 0, den |-> 1]
        ELSE IF RatLt(major_vol, Num(points[1][1])) THEN NoneNum
        ELSE IF RatGeq(major_vol, Num(points[n][1])) THEN Num(points[n][2])
        ELSE IF hits # {}
             THEN LET i == CHOOSE k \in hits : \A j \in hits : k <= j
                  IN  SegmentValue(points[i], points[i + 1], major_vol)
        ELSE Num(points[n][2])

\* traffic_df[col].sum()
RECURSIVE SumCol(_, _)
SumCol(rows, col) ==
    IF rows = <<>> THEN 0
    ELSE rows[1][col] + SumCol(Tail(rows), col)

\* the major and minor columns: the larger total is major, street 1 on a tie
ResolveRoles(rows) ==
    IF SumCol(rows, "Street1") >= SumCol(rows, "Street2")
    THEN [major_col |-> "Street1", minor_col |-> "Street2"]
    ELSE [major_col |-> "Street2", minor_col |-> "Street1"]

\* major_col.replace(' (vph)', '')
StreetName(col) == IF col = "Street1" THEN "Street 1" ELSE "Street 2"

\* traffic_df is None or len(traffic_df) < n
FewerThan(df, n) == df.is_none \/ Len(df.rows) < n

\* major_vol >= thresh[0] and minor_vol >= thresh[1]
MeetsPair(major_vol, minor_vol, thresh) ==
    major_vol >= thresh[1] /\ minor_vol >= thresh[2]

-----------------------------------------------------------------------------
(* Warrant 1: Eight-Hour Vehicular Volume.                                 *)

\* mutant: too few rows are reported as a negative determination
W1Insufficient_NotMet ==
    [met |-> "False", condition |-> "None", hours_met |-> 0,
     details |-> [text |-> "Insufficient data (need at least 8 hours)", vals |-> <<>>],
     threshold_used |-> "None", hourly_results |-> "None"]

W1Insufficient ==
    [met |-> "None", condition |-> "None", hours_met |-> 0,
     details |-> [text |-> "Insufficient data (need at least 8 hours)", vals |-> <<>>],
     threshold_used |-> "None", hourly_results |-> "None"]

\* mutant: Condition B is tried before Condition A
W1Decision_BFirst(hours_a, hours_b, hours_a_combo, hours_b_combo, pct, pct_combo) ==
    IF hours_b >= 8
    THEN [met |-> "True", condition |-> "B", hours_met |-> hours_b,
          details |-> [text |-> "Condition B MET: {hours_b} hours meet threshold ({pct}%)",
                       vals |-> <<hours_b, pct>>]]
    ELSE IF hours_a >= 8
    THEN [met |-> "True", condition |-> "A", hours_met |-> hours_a,
          details |-> [text |-> "Condition A MET: {hours_a} hours meet threshold ({pct}%)",
                       vals |-> <<hours_a, pct>>]]
    ELSE IF hours_a_combo >= 8 /\ hours_b_combo >= 8
    THEN [met |-> "True", condition |-> "A+B",
          hours_met |-> Min(hours_a_combo, hours_b_combo),
          details |-> [text |-> "Combination A+B MET: Both conditions meet {pct_combo}% threshold for 8+ hours",
                       vals |-> <<pct_combo>>]]
    ELSE [met |-> "False", condition |-> "None", hours_met |-> Max(hours_a, hours_b),
          details |-> [text |-> "NOT MET: Condition A ({hours_a}/8 hrs), Condition B ({hours_b}/8 hrs)",
                       vals |-> <<hours_a, hours_b>>]]

\* the first-match-wins decision on the four hour counts: the fields that
\* result.update() sets
W1Decision(hours_a, hours_b, hours_a_combo, hours_b_combo, pct, pct_combo) ==
    IF hours_a >= 8
    THEN [met |-> "True", condition |-> "A", hours_met |-> hours_a,
          details |-> [text |-> "Condition A MET: {hours_a} hours meet threshold ({pct}%)",
                       vals |-> <<hours_a, pct>>]]
    ELSE IF hours_b >= 8
    THEN [met |-> "True", condition |-> "B", hours_met |-> hours_b,
          details |-> [text |-> "Condition B MET: {hours_b} hours meet threshold ({pct}%)",
                       vals |-> <<hours_b, pct>>]]
    ELSE IF hours_a_combo >= 8 /\ hours_b_combo >= 8
    THEN [met |-> "True", condition |-> "A+B",
          hours_met |-> Min(hours_a_combo, hours_b_combo),
          details |-> [text |-> "Combination A+B MET: Both conditions meet {pct_combo}% threshold for 8+ hours",
                       vals |-> <<pct_combo>>]]
    ELSE [met |-> "False", condition |-> "None", hours_met |-> Max(hours_a, hours_b),
          details |-> [text |-> "NOT MET: Condition A ({hours_a}/8 hrs), Condition B ({hours_b}/8 hrs)",
                       vals |-> <<hours_a, hours_b>>]]

\* the number of rows of the loop on which test(row) holds
CountHours(rows, test(_)) == Cardinality({i \in 1..Len(rows) : test(rows[i])})

evaluate_warrant1(df, major_lanes, minor_lanes, speed, population) ==
    IF FewerThan(df, 8) THEN W1Insufficient
    ELSE
    LET lane_key  == get_lane_key(major_lanes, minor_lanes)
        pct       == get_threshold_percentage(speed, population, FALSE)
        pct_combo == get_threshold_percentage(speed, population, TRUE)
        thresh_a  == tables.WARRANT1_THRESHOLDS.condition_a[lane_key][pct]
        thresh_b  == tables.WARRANT1_THRESHOLDS.condition_b[lane_key][pct]
        thresh_a_combo == tables.WARRANT1_THRESHOLDS.condition_a[lane_key][pct_combo]
        thresh_b_combo == tables.WARRANT1_THRESHOLDS.condition_b[lane_key][pct_combo]
        roles == ResolveRoles(df.rows)
        meets_a(row) == MeetsPair(row[roles.major_col], row[roles.minor_col], thresh_a)
        meets_b(row) == MeetsPair(row[roles.major_col], row[roles.minor_col], thresh_b)
        meets_a_combo(row) == MeetsPair(row[roles.major_col], row[roles.minor_col], thresh_a_combo)
        meets_b_combo(row) == MeetsPair(row[roles.major_col], row[roles.minor_col], thresh_b_combo)
        hours_a == CountHours(df.rows, meets_a)
        hours_b == CountHours(df.rows, meets_b)
        hours_a_combo == CountHours(df.rows, meets_a_combo)
        hours_b_combo == CountHours(df.rows, meets_b_combo)
        hourly_results ==
            [i \in 1..Len(df.rows) |->
                [hour |-> df.rows[i].Hour,
                 major_vol |-> df.rows[i][roles.major_col],
                 minor_vol |-> df.rows[i][roles.minor_col],
                 meets_a |-> meets_a(df.rows[i]), meets_b |-> meets_b(df.rows[i]),
                 thresh_a_major |-> thresh_a[1], thresh_a_minor |-> thresh_a[2],
                 thresh_b_major |-> thresh_b[1], thresh_b_minor |-> thresh_b[2]]]
        d == W1Decision(hours_a, hours_b, hours_a_combo, hours_b_combo, pct, pct_combo)
    IN  [met |-> d.met, condition |-> d.condition, hours_met |-> d.hours_met,
         details |-> d.details,
         threshold_used |-> [pct |-> pct, condition_a |-> thresh_a, condition_b |-> thresh_b],
         hourly_results |-> hourly_results,
         major_street |-> StreetName(roles.major_col),
         minor_street |-> StreetName(roles.minor_col)]

-----------------------------------------------------------------------------
(* Warrant 2: Four-Hour Vehicular Volume.                                  *)

W2Insufficient ==
    [met |-> "None", hours_met |-> 0,
     details |-> [text |-> "Insufficient data (need at least 4 hours)", vals |-> <<>>],
     hourly_results |-> "None", curve_points |-> "None"]

\* mutant: the volume must exceed the threshold
AboveCurve_Strict(threshold, minor_vol) ==
    threshold.kind # "None" /\ ~RatGeq(threshold, Num(minor_vol))

\* mutant: a None threshold is taken as 0
AboveCurve_NoneAsZero(threshold, minor_vol) ==
    RatGeq(Num(minor_vol), threshold)

\* threshold is not None and minor_vol >= threshold
AboveCurve(threshold, minor_vol) ==
    threshold.kind # "None" /\ RatGeq(Num(minor_vol), threshold)

\* f"{'MET' if hours_above >= 4 else 'NOT MET'}: {hours_above}/4 hours above curve ({pct}%)"
W2Details(hours_above, pct) ==
    [text |-> IF hours_above >= 4
              THEN "MET: {hours_above}/4 hours above curve ({pct}%)"
              ELSE "NOT MET: {hours_above}/4 hours above curve ({pct}%)",
     vals |-> <<hours_above, pct>>]

evaluate_warrant2(df, major_lanes, minor_lanes, speed, population) ==
    IF FewerThan(df, 4) THEN W2Insufficient
    ELSE
    LET lane_key == get_lane_key(major_lanes, minor_lanes)
        pct == IF speed > 40 \/ population < 10000 THEN "70" ELSE "100"
        curve_points == tables.WARRANT2_CURVES[pct][lane_key]
        roles == ResolveRoles(df.rows)
        threshold(row) == interpolate_threshold(curve_points, Num(row[roles.major_col]))
        above_curve(row) == AboveCurve(threshold(row), row[roles.minor_col])
        hours_above == CountHours(df.rows, above_curve)
        hourly_results ==
            [i \in 1..Len(df.rows) |->
                [hour |-> df.rows[i].Hour,
                 major_vol |-> df.rows[i][roles.major_col],
                 minor_vol |-> df.rows[i][roles.minor_col],
                 threshold |-> threshold(df.rows[i]),
                 above_curve |-> above_curve(df.rows[i])]]
    IN  [met |-> PyBool(hours_above >= 4),
         hours_met |-> hours_above,
         details |-> W2Details(hours_above, pct),
         hourly_results |-> hourly_results,
         curve_points |-> curve_points,
         pct |-> pct,
         major_street |-> StreetName(roles.major_col),
         minor_street |-> StreetName(roles.minor_col)]

-----------------------------------------------------------------------------
(* Warrant 3: Peak Hour.                                                   *)

W3Insufficient ==
    [met |-> "None",
     details |-> [text |-> "Insufficient data", vals |-> <<>>],
     peak_hour |-> "None", curve_points |-> "None"]

\* mutant: the last row holding the largest total
IdxMax_Last(rows, major_col, minor_col) ==
    LET total(i) == rows[i][major_col] + rows[i][minor_col]
    IN  CHOOSE i \in 1..Len(rows) :
            /\ \A j \in 1..Len(rows) : total(j) <= total(i)
            /\ \A j \in (i + 1)..Len(rows) : total(j) < total(i)

\* traffic_df['total'].idxmax(): the first row holding the largest total
IdxMax(rows, major_col, minor_col) ==
    LET total(i) == rows[i][major_col] + rows[i][minor_col]
    IN  CHOOSE i \in 1..Len(rows) :
            /\ \A j \in 1..Len(rows) : total(j) <= total(i)
            /\ \A j \in 1..(i - 1) : total(j) < total(i)

\* the rows in descending order of major + minor total, the earlier row first
\* among equal totals
RowsByTotal(rows) ==
    LET total(i) == rows[i].Street1 + rows[i].Street2
        rank(i) == 1 + Cardinality({j \in 1..Len(rows) :
                           \/ total(j) > total(i)
                           \/ total(j) = total(i) /\ j < i})
    IN  [k \in 1..Len(rows) |-> rows[CHOOSE i \in 1..Len(rows) : rank(i) = k]]

\* mutant: no copy is made, the column 'total' is assigned on the caller's
\* frame
W3CallerSeries_NoCopy(df) ==
    IF FewerThan(df, 1) THEN df
    ELSE [df EXCEPT !.rows =
            [i \in 1..Len(df.rows) |->
                [Hour |-> df.rows[i].Hour,
                 Street1 |-> df.rows[i].Street1,
                 Street2 |-> df.rows[i].Street2,
                 total |-> df.rows[i].Street1 + df.rows[i].Street2]]]

\* mutant: no copy is made and the peak is brought to the first row by
\* sorting the caller's frame on the total
W3CallerSeries_SortedInPlace(df) ==
    IF FewerThan(df, 1) THEN df
    ELSE [df EXCEPT !.rows = RowsByTotal(df.rows)]

\* the caller's series after evaluate_warrant3: the name traffic_df is bound
\* to a copy before the column 'total' is assigned, so the caller's frame
\* keeps its rows and columns
W3CallerSeries(df) == df

\* mutant: the comparison is formatted whatever the threshold; None under
\* the format :.0f raises TypeError, and no explanation is built
W3Details_Unguarded(above_curve, peak_hour, peak_minor, threshold, pct) ==
    IF threshold.kind # "num" THEN [raised |-> "TypeError"]
    ELSE [text |-> IF above_curve
                   THEN "MET: Peak hour ({peak_hour}) - {peak_minor:.0f} vph vs {threshold:.0f} vph threshold ({pct}%)"
                   ELSE "NOT MET: Peak hour ({peak_hour}) - {peak_minor:.0f} vph vs {threshold:.0f} vph threshold ({pct}%)",
          vals |-> <<peak_hour, peak_minor, Format0f(threshold), pct>>]

\* detail_str: the comparison when the threshold is truthy, else the range note
W3Details(above_curve, peak_hour, peak_minor, threshold, pct) ==
    IF Truthy(threshold)
    THEN [text |-> IF above_curve
                   THEN "MET: Peak hour ({peak_hour}) - {peak_minor:.0f} vph vs {threshold:.0f} vph threshold ({pct}%)"
                   ELSE "NOT MET: Peak hour ({peak_hour}) - {peak_minor:.0f} vph vs {threshold:.0f} vph threshold ({pct}%)",
          vals |-> <<peak_hour, peak_minor, Format0f(threshold), pct>>]
    ELSE [text |-> "NOT MET: Major volume below curve range", vals |-> <<>>]

evaluate_warrant3(df, major_lanes, minor_lanes, speed, population) ==
    IF FewerThan(df, 1) THEN W3Insufficient
    ELSE
    LET lane_key == get_lane_key(major_lanes, minor_lanes)
        pct == IF speed > 40 \/ population < 10000 THEN "70" ELSE "100"
        curve_points == tables.WARRANT3_CURVES[pct][lane_key]
        roles == ResolveRoles(df.rows)
        peak_idx == IdxMax(df.rows, roles.major_col, roles.minor_col)
        peak_row == df.rows[peak_idx]
        peak_major == peak_row[roles.major_col]
        peak_minor == peak_row[roles.minor_col]
        peak_hour == peak_row.Hour
        threshold == interpolate_threshold(curve_points, Num(peak_major))
        above_curve == AboveCurve(threshold, peak_minor)
    IN  [met |-> PyBool(above_curve),
         peak_hour |-> peak_hour,
         peak_major |-> peak_major,
         peak_minor |-> peak_minor,
         threshold |-> threshold,
         details |-> W3Details(above_curve, peak_hour, peak_minor, threshold, pct),
         curve_points |-> curve_points,
         pct |-> pct,
         major_street |-> StreetName(roles.major_col),
         minor_street |-> StreetName(roles.minor_col)]

-----------------------------------------------------------------------------
(* Warrant 4: Pedestrian Volume.                                           *)

\* the sum of the k largest values of a sequence (all of them when fewer)
RECURSIVE SumLargest(_, _)
SumLargest(vals, k) ==
    IF k = 0 \/ vals = <<>> THEN 0
    ELSE LET i == CHOOSE a \in 1..Len(vals) : \A b \in 1..Len(vals) : vals[b] <= vals[a]
         IN  vals[i] + SumLargest(SubSeq(vals, 1, i - 1) \o SubSeq(vals, i + 1, Len(vals)), k - 1)

\* traffic_df.nlargest(4, major_col)[major_col].mean()
MeanLargest4(rows, major_col) ==
    Rat(SumLargest([i \in 1..Len(rows) |-> rows[i][major_col]], 4), Min(4, Len(rows)))

\* traffic_df[major_col].max()
MaxCol(rows, col) ==
    CHOOSE v \in {rows[i][col] : i \in 1..Len(rows)} :
        \A i \in 1..Len(rows) : rows[i][col] <= v

\* f"{t:.0f}" if t else "N/A"
FormatOrNA(t) == IF Truthy(t) THEN Format0f(t) ELSE "N/A"

\* mutant: the peak-hour check names the criterion when both checks pass
W4Details_PeakFirst(four_hour_met, peak_hour_met, ped_4hr, ped_peak, four_hr_threshold, peak_hr_threshold, pct) ==
    IF peak_hour_met
    THEN [criterion |-> "Peak Hour",
          details |-> [text |-> "MET (Peak Hour): {ped_peak} peds/hr vs {peak_hr_threshold:.0f} threshold ({pct}%)",
                       vals |-> <<ped_peak, Format0f(peak_hr_threshold), pct>>]]
    ELSE IF four_hour_met
    THEN [criterion |-> "Four-Hour",
          details |-> [text |-> "MET (Four-Hour): {ped_4hr} peds/hr vs {four_hr_threshold:.0f} threshold ({pct}%)",
                       vals |-> <<ped_4hr, Format0f(four_hr_threshold), pct>>]]
    ELSE [criterion |-> "None",
          details |-> [text |-> "NOT MET: 4-hr ({ped_4hr} vs {four_hr_str}), Peak ({ped_peak} vs {peak_hr_str}) ({pct}%)",
                       vals |-> <<ped_4hr, FormatOrNA(four_hr_threshold),
                                  ped_peak, FormatOrNA(peak_hr_threshold), pct>>]]

\* details and criterion of a verdict that reached the two curve checks
W4Details(four_hour_met, peak_hour_met, ped_4hr, ped_peak, four_hr_threshold, peak_hr_threshold, pct) ==
    IF four_hour_met
    THEN [criterion |-> "Four-Hour",
          details |-> [text |-> "MET (Four-Hour): {ped_4hr} peds/hr vs {four_hr_threshold:.0f} threshold ({pct}%)",
                       vals |-> <<ped_4hr, Format0f(four_hr_threshold), pct>>]]
    ELSE IF peak_hour_met
    THEN [criterion |-> "Peak Hour",
          details |-> [text |-> "MET (Peak Hour): {ped_peak} peds/hr vs {peak_hr_threshold:.0f} threshold ({pct}%)",
                       vals |-> <<ped_peak, Format0f(peak_hr_threshold), pct>>]]
    ELSE [criterion |-> "None",
          details |-> [text |-> "NOT MET: 4-hr ({ped_4hr} vs {four_hr_str}), Peak ({ped_peak} vs {peak_hr_str}) ({pct}%)",
                       vals |-> <<ped_4hr, FormatOrNA(four_hr_threshold),
                                  ped_peak, FormatOrNA(peak_hr_threshold), pct>>]]

\* mutant: street 2 is major on a tie
W4MajorCol_Strict(rows) ==
    IF SumCol(rows, "Street1") > SumCol(rows, "Street2") THEN "Street1" ELSE "Street2"

\* 'Street 1 (vph)' if street1_total >= street2_total else 'Street 2 (vph)'
W4MajorCol(rows) ==
    IF SumCol(rows, "Street1") >= SumCol(rows, "Street2") THEN "Street1" ELSE "Street2"

\* the two curve checks, made once the gates have passed and a series is there
W4CurveChecks(df, speed, population, ped_peak, ped_4hr, gaps_per_hour) ==
    LET use_70 == speed > 35 \/ population < 10000
        pct == IF use_70 THEN "70" ELSE "100"
        four_hour_curve == IF pct = "70" THEN tables.WARRANT4_CURVES.four_hour_70
                                         ELSE tables.WARRANT4_CURVES.four_hour_100
        peak_hour_curve == IF pct = "70" THEN tables.WARRANT4_CURVES.peak_hour_70
                                         ELSE tables.WARRANT4_CURVES.peak_hour_100
        major_col == W4MajorCol(df.rows)
        top_4_major == MeanLargest4(df.rows, major_col)
        four_hr_threshold == interpolate_threshold(four_hour_curve, top_4_major)
        four_hour_met == AboveCurve(four_hr_threshold, ped_4hr)
        peak_major == MaxCol(df.rows, major_col)
        peak_hr_threshold == interpolate_threshold(peak_hour_curve, Num(peak_major))
        peak_hour_met == AboveCurve(peak_hr_threshold, ped_peak)
        met == four_hour_met \/ peak_hour_met
        d == W4Details(four_hour_met, peak_hour_met, ped_4hr, ped_peak,
                       four_hr_threshold, peak_hr_threshold, pct)
    IN  [met |-> PyBool(met),
         details |-> d.details,
         criterion |-> d.criterion,
         four_hour_met |-> four_hour_met,
         peak_hour_met |-> peak_hour_met,
         four_hour_threshold |-> four_hr_threshold,
         peak_hour_threshold |-> peak_hr_threshold,
         pct |-> pct,
         gaps_per_hour |-> gaps_per_hour,
         four_hour_curve |-> four_hour_curve,
         peak_hour_curve |-> peak_hour_curve]

W4TooClose ==
    [met |-> "False",
     details |-> [text |-> "NOT MET: Distance to nearest signal < 300 ft", vals |-> <<>>],
     criterion |-> "None", four_hour_met |-> FALSE, peak_hour_met |-> FALSE]

W4GapsAdequate(gaps_per_hour) ==
    [met |-> "False",
     details |-> [text |-> "NOT MET: Adequate gaps ({gaps_per_hour}/hr) >= 60 required maximum",
                  vals |-> <<gaps_per_hour>>],
     criterion |-> "None", four_hour_met |-> FALSE, peak_hour_met |-> FALSE]

W4Insufficient ==
    [met |-> "None",
     details |-> [text |-> "Insufficient traffic data", vals |-> <<>>],
     criterion |-> "None", four_hour_met |-> FALSE, peak_hour_met |-> FALSE]

\* mutant: the series is tested before the two gates
evaluate_warrant4_SeriesFirst(df, speed, population, ped_peak, ped_4hr, gaps_per_hour, dist_to_signal) ==
    IF FewerThan(df, 1) THEN W4Insufficient
    ELSE IF dist_to_signal < 300 THEN W4TooClose
    ELSE IF ~(gaps_per_hour < 60) THEN W4GapsAdequate(gaps_per_hour)
    ELSE W4CurveChecks(df, speed, population, ped_peak, ped_4hr, gaps_per_hour)

evaluate_warrant4(df, speed, population, ped_peak, ped_4hr, gaps_per_hour, dist_to_signal) ==
    IF dist_to_signal < 300 THEN W4TooClose
    ELSE IF ~(gaps_per_hour < 60) THEN W4GapsAdequate(gaps_per_hour)
    ELSE IF FewerThan(df, 1) THEN W4Insufficient
    ELSE W4CurveChecks(df, speed, population, ped_peak, ped_4hr, gaps_per_hour)

-----------------------------------------------------------------------------
(* Warrant 5: School Crossing.                                             *)

\* mutant: as many gaps as minutes still count as too few
evaluate_warrant5_Leq(school_crossing, school_children, school_gaps, crossing_period_minutes) ==
    IF ~school_crossing
    THEN [met |-> "None",
          details |-> [text |-> "No school crossing designated", vals |-> <<>>],
          children |-> school_children, gaps |-> school_gaps]
    ELSE IF school_children < 20
    THEN [met |-> "False",
          details |-> [text |-> "NOT MET: {school_children} schoolchildren < 20 minimum",
                       vals |-> <<school_children>>],
          children |-> school_children, gaps |-> school_gaps]
    ELSE IF school_gaps <= crossing_period_minutes
    THEN [met |-> "True",
          details |-> [text |-> "MET: {school_children} children, {school_gaps} gaps < {crossing_period_minutes} min period",
                       vals |-> <<school_children, school_gaps, crossing_period_minutes>>],
          children |-> school_children, gaps |-> school_gaps]
    ELSE [met |-> "False",
          details |-> [text |-> "NOT MET: {school_gaps} adequate gaps >= {crossing_period_minutes} min crossing period",
                       vals |-> <<school_gaps, crossing_period_minutes>>],
          children |-> school_children, gaps |-> school_gaps]

evaluate_warrant5(school_crossing, school_children, school_gaps, crossing_period_minutes) ==
    IF ~school_crossing
    THEN [met |-> "None",
          details |-> [text |-> "No school crossing designated", vals |-> <<>>],
          children |-> school_children, gaps |-> school_gaps]
    ELSE IF school_children < 20
    THEN [met |-> "False",
          details |-> [text |-> "NOT MET: {school_children} schoolchildren < 20 minimum",
                       vals |-> <<school_children>>],
          children |-> school_children, gaps |-> school_gaps]
    ELSE IF school_gaps < crossing_period_minutes
    THEN [met |-> "True",
          details |-> [text |-> "MET: {school_children} children, {school_gaps} gaps < {crossing_period_minutes} min period",
                       vals |-> <<school_children, school_gaps, crossing_period_minutes>>],
          children |-> school_children, gaps |-> school_gaps]
    ELSE [met |-> "False",
          details |-> [text |-> "NOT MET: {school_gaps} adequate gaps >= {crossing_period_minutes} min crossing period",
                       vals |-> <<school_gaps, crossing_period_minutes>>],
          children |-> school_children, gaps |-> school_gaps]

-----------------------------------------------------------------------------
(* Warrant 7: Crash Experience.                                            *)

\* mutant: a stopping gate marks both earlier conditions as passed
W7Gate_NoMarks(text, vals, condition_a, condition_b, correctable_crashes) ==
    [met |-> "False",
     details |-> [text |-> text, vals |-> vals],
     condition_a |-> TRUE, condition_b |-> TRUE, condition_c |-> FALSE,
     correctable_crashes |-> correctable_crashes,
     hours_meeting_volume |-> 0]

\* the verdict of a gate that stops the evaluation before the hourly loop
W7Gate(text, vals, condition_a, condition_b, correctable_crashes) ==
    [met |-> "False",
     details |-> [text |-> text, vals |-> vals],
     condition_a |-> condition_a, condition_b |-> condition_b, condition_c |-> FALSE,
     correctable_crashes |-> correctable_crashes,
     hours_meeting_volume |-> 0]

\* mutant: only the two Warrant 1 pairs qualify an hour
W7MeetsVolume_PairsOnly(meets_w1_a, meets_w1_b, meets_w3) == meets_w1_a \/ meets_w1_b

\* mutant: only the Warrant 3 curve qualifies an hour
W7MeetsVolume_CurveOnly(meets_w1_a, meets_w1_b, meets_w3) == meets_w3

\* an hour meets the volume requirement
W7MeetsVolume(meets_w1_a, meets_w1_b, meets_w3) == meets_w1_a \/ meets_w1_b \/ meets_w3

\* mutant: past the gates, the 80% pairs are stored over the 100% pairs of
\* the lane key in the Warrant 1 table
W7Tables_Stores80(t, df, major_lanes, minor_lanes, correctable_crashes, alternatives_tried) ==
    IF ~alternatives_tried \/ correctable_crashes < 5 \/ FewerThan(df, 8) THEN t
    ELSE LET lane_key == get_lane_key(major_lanes, minor_lanes)
             w1 == t.WARRANT1_THRESHOLDS
         IN  [t EXCEPT !.WARRANT1_THRESHOLDS =
                 [condition_a |-> [w1.condition_a EXCEPT ![lane_key]["100"] = w1.condition_a[lane_key]["80"]],
                  condition_b |-> [w1.condition_b EXCEPT ![lane_key]["100"] = w1.condition_b[lane_key]["80"]]]]

\* the tables after evaluate_warrant7: it subscripts the Warrant 1 table and
\* the Warrant 3 curves and assigns to neither
W7Tables(t, df, major_lanes, minor_lanes, correctable_crashes, alternatives_tried) == t

evaluate_warrant7(df, major_lanes, minor_lanes, speed, population, correctable_crashes, alternatives_tried) ==
    IF ~alternatives_tried
    THEN W7Gate("NOT MET: Adequate trial of alternatives not documented", <<>>,
                FALSE, FALSE, correctable_crashes)
    ELSE IF correctable_crashes < 5
    THEN W7Gate("NOT MET: {correctable_crashes} correctable crashes < 5 required (12-month period)",
                <<correctable_crashes>>, TRUE, FALSE, correctable_crashes)
    ELSE IF FewerThan(df, 8)
    THEN W7Gate("NOT MET: Insufficient traffic data for volume analysis", <<>>,
                TRUE, TRUE, correctable_crashes)
    ELSE
    LET lane_key == get_lane_key(major_lanes, minor_lanes)
        thresh_a_80 == tables.WARRANT1_THRESHOLDS.condition_a[lane_key]["80"]
        thresh_b_80 == tables.WARRANT1_THRESHOLDS.condition_b[lane_key]["80"]
        pct == IF speed > 40 \/ population < 10000 THEN "70" ELSE "100"
        curve_points == tables.WARRANT3_CURVES[pct][lane_key]
        roles == ResolveRoles(df.rows)
        meets_w1_a(row) == MeetsPair(row[roles.major_col], row[roles.minor_col], thresh_a_80)
        meets_w1_b(row) == MeetsPair(row[roles.major_col], row[roles.minor_col], thresh_b_80)
        w3_threshold(row) == interpolate_threshold(curve_points, Num(row[roles.major_col]))
        meets_w3(row) == AboveCurve(w3_threshold(row), row[roles.minor_col])
        meets_volume(row) == W7MeetsVolume(meets_w1_a(row), meets_w1_b(row), meets_w3(row))
        hours_meeting_volume == CountHours(df.rows, meets_volume)
        condition_c_met == hours_meeting_volume >= 8
        hourly_results ==
            [i \in 1..Len(df.rows) |->
                [hour |-> df.rows[i].Hour,
                 major_vol |-> df.rows[i][roles.major_col],
                 minor_vol |-> df.rows[i][roles.minor_col],
                 meets_w1_a |-> meets_w1_a(df.rows[i]),
                 meets_w1_b |-> meets_w1_b(df.rows[i]),
                 meets_w3 |-> meets_w3(df.rows[i]),
                 meets_volume |-> meets_volume(df.rows[i]),
                 thresh_a |-> thresh_a_80, thresh_b |-> thresh_b_80,
                 w3_threshold |-> w3_threshold(df.rows[i])]]
    IN  [met |-> PyBool(condition_c_met),
         details |->
            IF condition_c_met
            THEN [text |-> "MET: {correctable_crashes} crashes, alternatives tried, {hours_meeting_volume}/8 hrs volume",
                  vals |-> <<correctable_crashes, hours_meeting_volume>>]
            ELSE [text |-> "NOT MET: Volume requirement - only {hours_meeting_volume}/8 hours meet threshold",
                  vals |-> <<hours_meeting_volume>>],
         condition_a |-> TRUE, condition_b |-> TRUE, condition_c |-> condition_c_met,
         correctable_crashes |-> correctable_crashes,
         hours_meeting_volume |-> hours_meeting_volume,
         hourly_results |-> hourly_results,
         thresh_a_80 |-> thresh_a_80, thresh_b_80 |-> thresh_b_80,
         curve_points |-> curve_points, pct |-> pct,
         major_street |-> StreetName(roles.major_col),
         minor_street |-> StreetName(roles.minor_col)]

-----------------------------------------------------------------------------
(* Warrant 6: Coordinated Signal System.                                   *)

\* the verdict of a coordinated system, spacing_ok given
W6Verdict(spacing_ok, signal_spacing, progression_speed) ==
    IF spacing_ok
    THEN [met |-> "True",
          details |-> [text |-> "MET: {signal_spacing} ft spacing within {min_spacing}-{max_spacing} ft range",
                       vals |-> <<signal_spacing, 1000, 2640>>],
          signal_spacing |-> signal_spacing, progression_speed |-> progression_speed,
          engineering_judgment |-> TRUE]
    ELSE [met |-> "False",
          details |-> [text |-> "NOT MET: {signal_spacing} ft spacing outside {min_spacing}-{max_spacing} ft range",
                       vals |-> <<signal_spacing, 1000, 2640>>],
          signal_spacing |-> signal_spacing, progression_speed |-> progression_speed,
          engineering_judgment |-> TRUE]

\* the verdict outside a coordinated system: it has no engineering_judgment key
W6NotCoordinated(signal_spacing, progression_speed) ==
    [met |-> "None",
     details |-> [text |-> "Not part of coordinated system", vals |-> <<>>],
     signal_spacing |-> signal_spacing, progression_speed |-> progression_speed]

\* mutant: the two ends of the spacing band are left out
evaluate_warrant6_Open(coordinated_system, signal_spacing, progression_speed) ==
    IF ~coordinated_system THEN W6NotCoordinated(signal_spacing, progression_speed)
    ELSE W6Verdict(1000 < signal_spacing /\ signal_spacing < 2640,
                   signal_spacing, progression_speed)

evaluate_warrant6(coordinated_system, signal_spacing, progression_speed) ==
    IF ~coordinated_system THEN W6NotCoordinated(signal_spacing, progression_speed)
    ELSE LET min_spacing == 1000
             max_spacing == 2640
             spacing_ok == min_spacing <= signal_spacing /\ signal_spacing <= max_spacing
         IN  W6Verdict(spacing_ok, signal_spacing, progression_speed)

-----------------------------------------------------------------------------
(* Warrant 8: Roadway Network.                                             *)

\* a verdict of Warrant 8: every one carries the engineering_judgment key
W8Verdict(met, text, route_designation, future_volumes) ==
    [met |-> met,
     details |-> [text |-> text, vals |-> <<>>],
     route_designation |-> route_designation, future_volumes |-> future_volumes,
     engineering_judgment |-> TRUE]

\* mutant: a designated route without projected volumes gets the explanation
\* of a route that is not designated
evaluate_warrant8_OneNote(network_continuity, route_designation, future_volumes) ==
    IF ~network_continuity
    THEN W8Verdict("None", "Network continuity not applicable",
                   route_designation, future_volumes)
    ELSE IF route_designation /\ future_volumes
    THEN W8Verdict("True", "MET: Route designation confirmed, projected volumes support installation",
                   route_designation, future_volumes)
    ELSE W8Verdict("False", "NOT MET: Not on designated route network",
                   route_designation, future_volumes)

evaluate_warrant8(network_continuity, route_designation, future_volumes) ==
    IF ~network_continuity
    THEN W8Verdict("None", "Network continuity not applicable",
                   route_designation, future_volumes)
    ELSE IF route_designation /\ future_volumes
    THEN W8Verdict("True", "MET: Route designation confirmed, projected volumes support installation",
                   route_designation, future_volumes)
    ELSE IF route_designation
    THEN W8Verdict("False", "NOT MET: Route designated but projected volumes insufficient",
                   route_designation, future_volumes)
    ELSE W8Verdict("False", "NOT MET: Not on designated route network",
                   route_designation, future_volumes)

-----------------------------------------------------------------------------
(* Warrant 9: Intersection Near a Grade Crossing.                          *)

W9Verdict(met, text, vals, train_frequency, queuing_distance, preemption_needed) ==
    [met |-> met,
     details |-> [text |-> text, vals |-> vals],
     train_frequency |-> train_frequency, queuing_distance |-> queuing_distance,
     preemption_needed |-> preemption_needed]

\* mutant: the train activity is tested before the distance
evaluate_warrant9_ActivityFirst(railroad_crossing, train_frequency, queuing_distance, preemption_needed) ==
    IF ~railroad_crossing
    THEN W9Verdict("None", "No railroad grade crossing nearby", <<>>,
                   train_frequency, queuing_distance, preemption_needed)
    ELSE IF train_frequency > 0 /\ preemption_needed
    THEN W9Verdict("True", "MET: {train_frequency} trains/day, {queuing_distance} ft from crossing, preemption required",
                   <<train_frequency, queuing_distance>>,
                   train_frequency, queuing_distance, preemption_needed)
    ELSE IF queuing_distance > 140
    THEN W9Verdict("False", "NOT MET: Distance ({queuing_distance} ft) exceeds 140 ft maximum",
                   <<queuing_distance>>,
                   train_frequency, queuing_distance, preemption_needed)
    ELSE W9Verdict("False", "NOT MET: Insufficient train activity or preemption not needed", <<>>,
                   train_frequency, queuing_distance, preemption_needed)

evaluate_warrant9(railroad_crossing, train_frequency, queuing_distance, preemption_needed) ==
    IF ~railroad_crossing
    THEN W9Verdict("None", "No railroad grade crossing nearby", <<>>,
                   train_frequency, queuing_distance, preemption_needed)
    ELSE IF queuing_distance > 140
    THEN W9Verdict("False", "NOT MET: Distance ({queuing_distance} ft) exceeds 140 ft maximum",
                   <<queuing_distance>>,
                   train_frequency, queuing_distance, preemption_needed)
    ELSE IF train_frequency > 0 /\ preemption_needed
    THEN W9Verdict("True", "MET: {train_frequency} trains/day, {queuing_distance} ft from crossing, preemption required",
                   <<train_frequency, queuing_distance>>,
                   train_frequency, queuing_distance, preemption_needed)
    ELSE W9Verdict("False", "NOT MET: Insufficient train activity or preemption not needed", <<>>,
                   train_frequency, queuing_distance, preemption_needed)

-----------------------------------------------------------------------------
(* The summary of render_results.  A status is a string, held as the       *)
(* sequence of its characters; a character outside ASCII is written by its *)
(* code point.                                                             *)

\* '—'
StatusDash == <<"U+2014">>

\* '✓ MET'
StatusMet == <<"U+2713", " ", "M", "E", "T">>

\* '✗ NOT MET'
StatusNotMet == <<"U+2717", " ", "N", "O", "T", " ", "M", "E", "T">>

\* mutant: a verdict that is NotApplicable is shown as not met
get_status_NoneAsNotMet(verdict) ==
    IF verdict.met = "True" THEN StatusMet ELSE StatusNotMet

\* every evaluator returns a dict with the key 'met', so result is never
\* None and result.get('met') is the verdict's met
get_status(verdict) ==
    IF verdict.met = "None" THEN StatusDash
    ELSE IF verdict.met = "True" THEN StatusMet
    ELSE StatusNotMet

\* '✓' in s
HasCheckMark(s) == \E i \in 1..Len(s) : s[i] = "U+2713"

\* sum(1 for s in [...] if '✓' in s)
MetCount(statuses) == Cardinality({k \in 1..Len(statuses) : HasCheckMark(statuses[k])})

\* the summary of nine verdicts: their met values, their statuses, the count
\* of satisfied warrants and the banner shown for it
Summary(verdicts) ==
    LET statuses  == [k \in 1..Len(verdicts) |-> get_status(verdicts[k])]
        met_count == MetCount(statuses)
    IN  [met |-> [k \in 1..Len(verdicts) |-> verdicts[k].met],
         status |-> statuses,
         met_count |-> met_count,
         banner |-> IF met_count > 0 THEN "success" ELSE "warning"]

-----------------------------------------------------------------------------
(* The inputs the model draws from.                                        *)

\* the longest traffic series
MaxRows == 8

\* hourly volumes <<Street 1 (vph), Street 2 (vph)>>
Volumes == {<<600, 200>>, <<800, 100>>, <<600, 120>>, <<250, 75>>, <<200, 600>>}

\* n hours at volumes r followed by m hours at volumes q, labelled 1..n+m
Series(r, n, q, m) ==
    [i \in 1..(n + m) |->
        [Hour |-> i,
         Street1 |-> IF i <= n THEN r[1] ELSE q[1],
         Street2 |-> IF i <= n THEN r[2] ELSE q[2]]]

NoSeries == [is_none |-> TRUE, rows |-> <<>>]

\* series off the grid of Volumes: one hour and eight hours whose minor
\* volume lies between two whole numbers around the Warrant 3 curve (148.2
\* at major 412), eight hours that reach a Warrant 1 pair below the curve,
\* and eight hours of equal street totals with unequal peaks
EdgeSeries ==
    {[is_none |-> FALSE, rows |-> Series(t[1], t[2], t[3], t[4])] :
        t \in {<<(<<412, 148>>), 1, (<<412, 148>>), 0>>,
               <<(<<412, 148>>), 4, (<<412, 148>>), 4>>,
               <<(<<800, 90>>), 4, (<<800, 90>>), 4>>,
               <<(<<800, 200>>), 4, (<<100, 700>>), 4>>}}

SeriesSet ==
    {NoSeries} \cup
    {[is_none |-> FALSE, rows |-> Series(t[1], t[3], t[2], t[4])] :
        t \in {u \in Volumes \X Volumes \X (0..MaxRows) \X (0..MaxRows) :
                  u[3] + u[4] <= MaxRows}}
    \cup EdgeSeries

\* lane counts of the major and of the minor street
MajorLaneCounts == {1, 2, 3}
MinorLaneCounts == {1, 2}
Speeds == {35, 40, 45}
Populations == {9999, 10000, 15000}

\* Warrant 4: pedestrian counts, gaps per hour, distance to the nearest signal
PedPeaks == {140, 230}
Ped4Hrs == {70, 115}
GapsPerHour == {59, 60}
Distances == {299, 300}

\* Warrant 5: children, adequate gaps, crossing period (30 by default)
Children == {19, 20, 25}
SchoolGaps == {19, 20, 30, 35}
CrossingPeriods == {20, 30}

\* Warrant 7: correctable crashes in 12 months
Crashes == {4, 5}

\* Warrant 6: distance to the adjacent signals (ft), progression speed (mph)
SignalSpacings == {999, 1000, 2000, 2640, 2641}
ProgressionSpeeds == {25, 35}

\* Warrant 9: trains per day, distance to the grade crossing (ft)
TrainFrequencies == {0, 1, 10}
QueuingDistances == {139, 140, 141, 150}

\* curves handed to interpolate_threshold: the curves of the tables, and
\* every list of up to MaxCurveLen points of a small grid, in any order
MaxCurveLen == 3

CurveGrid == {100, 200, 300} \X {50, 100}

GridCurves == UNION {[1..n -> CurveGrid] : n \in 0..MaxCurveLen}

TableCurves ==
    {WARRANT2_CURVES[pct][key] : pct \in {"100", "70"}, key \in {1, 2} \X {1, 2}}
    \cup {WARRANT3_CURVES[pct][key] : pct \in {"100", "70"}, key \in {1, 2} \X {1, 2}}
    \cup {WARRANT4_CURVES.four_hour_100, WARRANT4_CURVES.four_hour_70,
          WARRANT4_CURVES.peak_hour_100, WARRANT4_CURVES.peak_hour_70}

\* major volumes: whole numbers, and the quarters an average of 4 hours gives
MajorVolumes ==
    {Num(10 * k) : k \in 0..120} \cup {Rat(100 * k + 1, 4) : k \in 0..47}

\* the session state render_results reads, one group of widgets each:
\* lanes of street 1 and 2, approach speed, population
SessionSites == {<<1, 1, 35, 15000>>, <<2, 1, 45, 9999>>}

\* peak pedestrians, 4-hour pedestrians, gaps per hour, distance to a signal
SessionPedestrians == {<<230, 115, 59, 1000>>, <<0, 0, 60, 1000>>}

\* correctable crashes, alternatives tried
SessionCrashes == {<<0, FALSE>>, <<5, TRUE>>}

\* the inputs of the four warrants that read no series, each in its three
\* cases: not applicable, met, not met
\* school crossing present, schoolchildren, adequate gaps
SessionSchool == <<(<<FALSE, 0, 0>>), (<<TRUE, 25, 20>>), (<<TRUE, 25, 35>>)>>

\* coordinated system, spacing of the signals, progression speed
SessionCoordination == <<(<<FALSE, 2000, 35>>), (<<TRUE, 2000, 35>>), (<<TRUE, 3000, 35>>)>>

\* network continuity, route designation, projected volumes
SessionNetwork == <<(<<FALSE, FALSE, FALSE>>), (<<TRUE, TRUE, TRUE>>), (<<TRUE, TRUE, FALSE>>)>>

\* grade crossing, trains per day, distance to the crossing, preemption
SessionRailroad == <<(<<FALSE, 0, 200, FALSE>>), (<<TRUE, 10, 100, TRUE>>), (<<TRUE, 10, 150, TRUE>>)>>

\* which case each of the four is in: all in the same case, or the cases
\* staggered so that one run shows all three
SessionCases ==
    {<<i, i, i, i>> : i \in 1..3}
    \cup {<<i, (i % 3) + 1, ((i + 1) % 3) + 1, i>> : i \in 1..3}

-----------------------------------------------------------------------------
(* The state machine: a series is loaded, then evaluators are called.      *)

NoArgs == [none |-> TRUE]

NoResult == [pending |-> TRUE]

Init ==
    /\ traffic_df \in SeriesSet
    /\ tables = StaticTables
    /\ fn = "none"
    /\ args = NoArgs
    /\ result = NoResult

\* the script reruns: the verdict of the last call is dropped
Rerun ==
    /\ fn # "none"
    /\ fn' = "none"
    /\ args' = NoArgs
    /\ result' = NoResult
    /\ UNCHANGED <<traffic_df, tables>>

CallW1 ==
    /\ fn = "none"
    /\ \E major_lanes \in MajorLaneCounts, minor_lanes \in MinorLaneCounts,
       speed \in Speeds, population \in Populations :
        /\ fn' = "evaluate_warrant1"
        /\ args' = [major_lanes |-> major_lanes, minor_lanes |-> minor_lanes,
                    speed |-> speed, population |-> population]
        /\ result' = evaluate_warrant1(traffic_df, major_lanes, minor_lanes, speed, population)
        /\ UNCHANGED <<traffic_df, tables>>

CallW2 ==
    /\ fn = "none"
    /\ \E major_lanes \in MajorLaneCounts, minor_lanes \in MinorLaneCounts,
       speed \in Speeds, population \in Populations :
        /\ fn' = "evaluate_warrant2"
        /\ args' = [major_lanes |-> major_lanes, minor_lanes |-> minor_lanes,
                    speed |-> speed, population |-> population]
        /\ result' = evaluate_warrant2(traffic_df, major_lanes, minor_lanes, speed, population)
        /\ UNCHANGED <<traffic_df, tables>>

CallW3 ==
    /\ fn = "none"
    /\ \E major_lanes \in MajorLaneCounts, minor_lanes \in MinorLaneCounts,
       speed \in Speeds, population \in Populations :
        /\ fn' = "evaluate_warrant3"
        /\ args' = [major_lanes |-> major_lanes, minor_lanes |-> minor_lanes,
                    speed |-> speed, population |-> population]
        /\ result' = evaluate_warrant3(traffic_df, major_lanes, minor_lanes, speed, population)
        /\ traffic_df' = W3CallerSeries(traffic_df)
        /\ UNCHANGED tables

CallW4 ==
    /\ fn = "none"
    /\ \E speed \in Speeds, population \in Populations,
       ped_peak \in PedPeaks, ped_4hr \in Ped4Hrs,
       gaps_per_hour \in GapsPerHour, dist_to_signal \in Distances :
        /\ fn' = "evaluate_warrant4"
        /\ args' = [speed |-> speed, population |-> population,
                    ped_peak |-> ped_peak, ped_4hr |-> ped_4hr,
                    gaps_per_hour |-> gaps_per_hour, dist_to_signal |-> dist_to_signal]
        /\ result' = evaluate_warrant4(traffic_df, speed, population, ped_peak, ped_4hr,
                                       gaps_per_hour, dist_to_signal)
        /\ UNCHANGED <<traffic_df, tables>>

CallW5 ==
    /\ fn = "none"
    /\ \E school_crossing \in BOOLEAN, school_children \in Children,
       school_gaps \in SchoolGaps, crossing_period_minutes \in CrossingPeriods :
        /\ fn' = "evaluate_warrant5"
        /\ args' = [school_crossing |-> school_crossing, school_children |-> school_children,
                    school_gaps |-> school_gaps,
                    crossing_period_minutes |-> crossing_period_minutes]
        /\ result' = evaluate_warrant5(school_crossing, school_children, school_gaps,
                                       crossing_period_minutes)
        /\ UNCHANGED <<traffic_df, tables>>

CallW7 ==
    /\ fn = "none"
    /\ \E major_lanes \in MajorLaneCounts, minor_lanes \in MinorLaneCounts,
       speed \in Speeds, population \in Populations,
       correctable_crashes \in Crashes, alternatives_tried \in BOOLEAN :
        /\ fn' = "evaluate_warrant7"
        /\ args' = [major_lanes |-> major_lanes, minor_lanes |-> minor_lanes,
                    speed |-> speed, population |-> population,
                    correctable_crashes |-> correctable_crashes,
                    alternatives_tried |-> alternatives_tried]
        /\ result' = evaluate_warrant7(traffic_df, major_lanes, minor_lanes, speed, population,
                                       correctable_crashes, alternatives_tried)
        /\ tables' = W7Tables(tables, traffic_df, major_lanes, minor_lanes,
                              correctable_crashes, alternatives_tried)
        /\ UNCHANGED traffic_df

CallW6 ==
    /\ fn = "none"
    /\ \E coordinated_system \in BOOLEAN, signal_spacing \in SignalSpacings,
       progression_speed \in ProgressionSpeeds :
        /\ fn' = "evaluate_warrant6"
        /\ args' = [coordinated_system |-> coordinated_system,
                    signal_spacing |-> signal_spacing,
                    progression_speed |-> progression_speed]
        /\ result' = evaluate_warrant6(coordinated_system, signal_spacing, progression_speed)
        /\ UNCHANGED <<traffic_df, tables>>

CallW8 ==
    /\ fn = "none"
    /\ \E network_continuity \in BOOLEAN, route_designation \in BOOLEAN,
       future_volumes \in BOOLEAN :
        /\ fn' = "evaluate_warrant8"
        /\ args' = [network_continuity |-> network_continuity,
                    route_designation |-> route_designation,
                    future_volumes |-> future_volumes]
        /\ result' = evaluate_warrant8(network_continuity, route_designation, future_volumes)
        /\ UNCHANGED <<traffic_df, tables>>

CallW9 ==
    /\ fn = "none"
    /\ \E railroad_crossing \in BOOLEAN, train_frequency \in TrainFrequencies,
       queuing_distance \in QueuingDistances, preemption_needed \in BOOLEAN :
        /\ fn' = "evaluate_warrant9"
        /\ args' = [railroad_crossing |-> railroad_crossing,
                    train_frequency |-> train_frequency,
                    queuing_distance |-> queuing_distance,
                    preemption_needed |-> preemption_needed]
        /\ result' = evaluate_warrant9(railroad_crossing, train_frequency, queuing_distance,
                                       preemption_needed)
        /\ UNCHANGED <<traffic_df, tables>>

\* the interpolator on its own: no series is involved
InitInterpolator ==
    /\ traffic_df = NoSeries
    /\ tables = StaticTables
    /\ fn = "none"
    /\ args = NoArgs
    /\ result = NoResult

\* the caller's list after interpolate_threshold: sorted() builds a new list
\* and the function works on that one
CallerCurve(curve_points) == curve_points

CallInterpolate ==
    /\ fn = "none"
    /\ \E curve_points \in GridCurves \cup TableCurves, major_vol \in MajorVolumes :
           /\ fn' = "interpolate_threshold"
           /\ args' = [curve_points |-> curve_points, major_vol |-> major_vol]
           /\ result' = [value |-> interpolate_threshold(curve_points, major_vol),
                         caller_curve |-> CallerCurve(curve_points)]
           /\ UNCHANGED <<traffic_df, tables>>

NextInterpolator == CallInterpolate \/ Rerun

SpecInterpolator == InitInterpolator /\ [][NextInterpolator]_vars

\* one run of the results page: the nine evaluators on the session state,
\* then the summary statuses and the count of satisfied warrants
render_results ==
    /\ fn = "none"
    /\ \E site \in SessionSites, ped \in SessionPedestrians, crash \in SessionCrashes,
          case \in SessionCases :
        LET school == SessionSchool[case[1]]
            coord  == SessionCoordination[case[2]]
            net    == SessionNetwork[case[3]]
            rail   == SessionRailroad[case[4]]
            w1_result == evaluate_warrant1(traffic_df, site[1], site[2], site[3], site[4])
            w2_result == evaluate_warrant2(traffic_df, site[1], site[2], site[3], site[4])
            w3_result == evaluate_warrant3(traffic_df, site[1], site[2], site[3], site[4])
            w4_result == evaluate_warrant4(traffic_df, site[3], site[4],
                                           ped[1], ped[2], ped[3], ped[4])
            w5_result == evaluate_warrant5(school[1], school[2], school[3], 30)
            w6_result == evaluate_warrant6(coord[1], coord[2], coord[3])
            w7_result == evaluate_warrant7(traffic_df, site[1], site[2], site[3], site[4],
                                           crash[1], crash[2])
            w8_result == evaluate_warrant8(net[1], net[2], net[3])
            w9_result == evaluate_warrant9(rail[1], rail[2], rail[3], rail[4])
        IN  /\ fn' = "render_results"
            /\ args' = [site |-> site, ped |-> ped, school |-> school, coord |-> coord,
                        crash |-> crash, net |-> net, rail |-> rail]
            /\ result' = Summary(<<w1_result, w2_result, w3_result, w4_result, w5_result,
                                   w6_result, w7_result, w8_result, w9_result>>)
            /\ traffic_df' = W3CallerSeries(traffic_df)
            /\ tables' = W7Tables(tables, traffic_df, site[1], site[2], crash[1], crash[2])

NextSummary == render_results \/ Rerun

SpecSummary == Init /\ [][NextSummary]_vars

-----------------------------------------------------------------------------
(* The nine evaluations of one run as nine processes.  They share the      *)
(* tables and the caller's series, each returns its verdict into a slot of *)
(* its own, and nothing orders them.                                       *)

\* the series of such a run: none, the edge series, and series of eight
\* hours whose totals do not fall from row to row
RunSeries ==
    {NoSeries} \cup EdgeSeries \cup
    {[is_none |-> FALSE, rows |-> Series(t[1], t[2], t[3], t[4])] :
        t \in {<<(<<600, 200>>), 4, (<<600, 200>>), 4>>,
               <<(<<250, 75>>), 3, (<<600, 200>>), 5>>,
               <<(<<600, 120>>), 4, (<<600, 200>>), 4>>}}

\* the session state of such a run
RunInputs ==
    {[site |-> site, ped |-> u[1], crash |-> u[2],
      school |-> SessionSchool[i], coord |-> SessionCoordination[i],
      net |-> SessionNetwork[i], rail |-> SessionRailroad[i]] :
        site \in SessionSites,
        u \in {<<ped, crash>> \in SessionPedestrians \X SessionCrashes :
                  (ped[1] = 0) <=> (crash[1] = 0)},
        i \in 1..3}

\* the call of evaluator k on a series and the session state a
Verdict(k, df, a) ==
    CASE k = 1 -> evaluate_warrant1(df, a.site[1], a.site[2], a.site[3], a.site[4])
      [] k = 2 -> evaluate_warrant2(df, a.site[1], a.site[2], a.site[3], a.site[4])
      [] k = 3 -> evaluate_warrant3(df, a.site[1], a.site[2], a.site[3], a.site[4])
      [] k = 4 -> evaluate_warrant4(df, a.site[3], a.site[4],
                                    a.ped[1], a.ped[2], a.ped[3], a.ped[4])
      [] k = 5 -> evaluate_warrant5(a.school[1], a.school[2], a.school[3], 30)
      [] k = 6 -> evaluate_warrant6(a.coord[1], a.coord[2], a.coord[3])
      [] k = 7 -> evaluate_warrant7(df, a.site[1], a.site[2], a.site[3], a.site[4],
                                    a.crash[1], a.crash[2])
      [] k = 8 -> evaluate_warrant8(a.net[1], a.net[2], a.net[3])
      [] k = 9 -> evaluate_warrant9(a.rail[1], a.rail[2], a.rail[3], a.rail[4])

\* the caller's series after the call of evaluator k
SeriesAfter(k, df) == IF k = 3 THEN W3CallerSeries(df) ELSE df

\* the tables after the call of evaluator k
TablesAfter(k, t, df, a) ==
    IF k = 7
    THEN W7Tables(t, df, a.site[1], a.site[2], a.crash[1], a.crash[2])
    ELSE t

\* the nine calls in the order of render_results, each on the series as the
\* calls before it leave it; Warrant 7 is the last to read a table
SequentialVerdicts(df, a) ==
    [k \in 1..9 |-> Verdict(k, IF k > 3 THEN SeriesAfter(3, df) ELSE df, a)]

InitRun ==
    /\ traffic_df \in RunSeries
    /\ tables = StaticTables
    /\ fn = "none"
    /\ args = NoArgs
    /\ result = NoResult

\* a run begins: the session state is read; sequential keeps what the nine
\* calls give in the order of render_results, to compare with
StartRun ==
    /\ fn = "none"
    /\ \E a \in RunInputs :
        /\ fn' = "evaluate_all_warrants"
        /\ args' = a
        /\ result' = [sequential |-> SequentialVerdicts(traffic_df, a),
                      verdicts |-> [k \in 1..9 |-> NoResult]]
        /\ UNCHANGED <<traffic_df, tables>>

\* process k runs its evaluator on the shared series and tables as they are
Evaluate(k) ==
    /\ fn = "evaluate_all_warrants"
    /\ result.verdicts[k] = NoResult
    /\ result' = [result EXCEPT !.verdicts[k] = Verdict(k, traffic_df, args)]
    /\ traffic_df' = SeriesAfter(k, traffic_df)
    /\ tables' = TablesAfter(k, tables, traffic_df, args)
    /\ UNCHANGED <<fn, args>>

\* Warrant 1 is evaluated once more, after whatever has run since
EvaluateW1Again ==
    /\ fn = "evaluate_all_warrants"
    /\ result.verdicts[1] # NoResult
    /\ result' = [result EXCEPT !.verdicts[1] = Verdict(1, traffic_df, args)]
    /\ UNCHANGED <<traffic_df, tables, fn, args>>

NextRun == StartRun \/ (\E k \in 1..9 : Evaluate(k)) \/ EvaluateW1Again \/ Rerun

SpecRun == InitRun /\ [][NextRun]_vars

\* any sequence of calls of the nine evaluators and of the interpolator
NextFrame ==
    \/ CallW1 \/ CallW2 \/ CallW3 \/ CallW4 \/ CallW5
    \/ CallW6 \/ CallW7 \/ CallW8 \/ CallW9
    \/ CallInterpolate
    \/ Rerun

\* the series such a sequence runs on: none, a single hour, eight hours
FrameSeries ==
    {df \in RunSeries : df.is_none \/ df.rows[1].Street2 \in {75, 148}}

InitFrame ==
    /\ traffic_df \in FrameSeries
    /\ tables = StaticTables
    /\ fn = "none"
    /\ args = NoArgs
    /\ result = NoResult

SpecFrame == InitFrame /\ [][NextFrame]_vars

\* lane counts of a street, from one lane up
MaxLanes == 12

LaneCounts == 1..MaxLanes

InitTables ==
    /\ traffic_df = NoSeries
    /\ tables = StaticTables
    /\ fn = "none"
    /\ args = NoArgs
    /\ result = NoResult

\* the key of the tables for the lanes of the two streets
CallLaneKey ==
    /\ fn = "none"
    /\ \E major_lanes \in LaneCounts, minor_lanes \in LaneCounts :
           /\ fn' = "get_lane_key"
           /\ args' = [major_lanes |-> major_lanes, minor_lanes |-> minor_lanes]
           /\ result' = [key |-> get_lane_key(major_lanes, minor_lanes)]
           /\ UNCHANGED <<traffic_df, tables>>

NextTables == CallLaneKey \/ Rerun

SpecTables == InitTables /\ [][NextTables]_vars

\* any call of any of the nine evaluators, on any series
NextEvaluators ==
    \/ CallW1 \/ CallW2 \/ CallW3 \/ CallW4 \/ CallW5
    \/ CallW6 \/ CallW7 \/ CallW8 \/ CallW9
    \/ Rerun

SpecEvaluators == Init /\ [][NextEvaluators]_vars

NextW1 == CallW1 \/ Rerun

SpecW1 == Init /\ [][NextW1]_vars

NextW2 == CallW2 \/ Rerun

SpecW2 == Init /\ [][NextW2]_vars

NextW3 == CallW3 \/ Rerun

SpecW3 == Init /\ [][NextW3]_vars

NextW4 == CallW4 \/ Rerun

SpecW4 == Init /\ [][NextW4]_vars

NextW5 == CallW5 \/ Rerun

SpecW5 == Init /\ [][NextW5]_vars

NextW7 == CallW7 \/ Rerun

SpecW7 == Init /\ [][NextW7]_vars

NextW6 == CallW6 \/ Rerun

SpecW6 == Init /\ [][NextW6]_vars

NextW8 == CallW8 \/ Rerun

SpecW8 == Init /\ [][NextW8]_vars

NextW9 == CallW9 \/ Rerun

SpecW9 == Init /\ [][NextW9]_vars

NextJudgment == CallW6 \/ CallW8 \/ Rerun

\* the two warrants of engineering judgment
SpecJudgment == Init /\ [][NextJudgment]_vars

NextTiers == CallW1 \/ CallW2 \/ CallW3 \/ CallW4 \/ CallW7 \/ Rerun

\* the evaluators that choose a threshold tier
SpecTiers == Init /\ [][NextTiers]_vars

NextRows == CallW1 \/ CallW2 \/ CallW3 \/ CallW7 \/ Rerun

\* the evaluators that ask for a minimum number of hourly rows
SpecRows == Init /\ [][NextRows]_vars

NextW23 == CallW2 \/ CallW3 \/ Rerun

\* the two warrants that read a volume curve at one hour's major volume
SpecW23 == Init /\ [][NextW23]_vars

Next ==
    \/ CallW1 \/ CallW2 \/ CallW3 \/ CallW4 \/ CallW5
    \/ CallW6 \/ CallW7 \/ CallW8 \/ CallW9
    \/ render_results
    \/ Rerun

Spec == Init /\ [][Next]_vars

-----------------------------------------------------------------------------
(* What the claims read of a state.                                        *)

\* the series is missing or shorter than n rows
Short(n) == traffic_df.is_none \/ Len(traffic_df.rows) < n

\* the lane class of a lane count: 1, or 2 for every other count
LaneClass(lanes) == IF lanes = 1 THEN 1 ELSE 2

ArgLaneKey == <<LaneClass(args.major_lanes), LaneClass(args.minor_lanes)>>

\* no reduction below 40 mph and 10,000 inhabitants
ArgReduced == args.speed > 40 \/ args.population < 10000

\* the street with the larger total volume is major, street 1 on a tie
Street1IsMajor ==
    SumCol(traffic_df.rows, "Street1") >= SumCol(traffic_df.rows, "Street2")

MajorVol(i) ==
    IF Street1IsMajor THEN traffic_df.rows[i].Street1 ELSE traffic_df.rows[i].Street2

MinorVol(i) ==
    IF Street1IsMajor THEN traffic_df.rows[i].Street2 ELSE traffic_df.rows[i].Street1

Hours == 1..Len(traffic_df.rows)

\* the hours in which both volumes reach the pair of a condition at a tier
HoursAtPair(condition, tier) ==
    LET pair == WARRANT1_THRESHOLDS[condition][ArgLaneKey][tier]
    IN  Cardinality({i \in Hours : MajorVol(i) >= pair[1] /\ MinorVol(i) >= pair[2]})

PrimaryTier == IF ArgReduced THEN "70" ELSE "100"

ComboTier == IF ArgReduced THEN "56" ELSE "80"

-----------------------------------------------------------------------------
(* C1: Warrant 1 gives NotApplicable on a missing series or fewer than 8   *)
(* rows; otherwise the first of these that applies decides: 8 or more      *)
(* Condition A hours, met as 'A'; 8 or more Condition B hours, met as 'B'; *)
(* 8 or more hours of each condition at the combination tier, met as       *)
(* 'A+B'; else not met with hours_met the larger of the A and B hours.     *)
C1_W1FirstMatchWins ==
    fn = "evaluate_warrant1" =>
        IF Short(8) THEN result.met = "None"
        ELSE LET a  == HoursAtPair("condition_a", PrimaryTier)
                 b  == HoursAtPair("condition_b", PrimaryTier)
                 ac == HoursAtPair("condition_a", ComboTier)
                 bc == HoursAtPair("condition_b", ComboTier)
             IN  IF a >= 8 THEN result.met = "True" /\ result.condition = "A"
                 ELSE IF b >= 8 THEN result.met = "True" /\ result.condition = "B"
                 ELSE IF ac >= 8 /\ bc >= 8
                      THEN result.met = "True" /\ result.condition = "A+B"
                 ELSE result.met = "False" /\ result.hours_met = Max(a, b)

\* both conditions reach 8 hours and the verdict names 'A'
C1_Witness ==
    /\ fn = "evaluate_warrant1"
    /\ ~Short(8)
    /\ HoursAtPair("condition_a", PrimaryTier) >= 8
    /\ HoursAtPair("condition_b", PrimaryTier) >= 8
    /\ result.condition = "A"

\* the other three arms of the decision are reached as well
C1_ReachB ==
    fn = "evaluate_warrant1" /\ ~Short(8) /\ result.condition = "B"

C1_ReachCombination ==
    fn = "evaluate_warrant1" /\ ~Short(8) /\ result.condition = "A+B"

C1_ReachNotMet ==
    /\ fn = "evaluate_warrant1" /\ ~Short(8) /\ result.met = "False"
    /\ result.hours_met > 0
    /\ HoursAtPair("condition_a", PrimaryTier) # HoursAtPair("condition_b", PrimaryTier)

-----------------------------------------------------------------------------
\* the row minimum of each evaluator that has one
RowMinimum ==
    "evaluate_warrant1" :> 8 @@ "evaluate_warrant2" :> 4 @@
    "evaluate_warrant3" :> 1 @@ "evaluate_warrant7" :> 8

\* C2 as stated: each of Warrants 1, 2, 3 and 7 gives NotApplicable (met =
\* None, never False) when the series is missing or below its row minimum;
\* Warrant 7 is read where it tests its row minimum, both earlier gates passed
C2_AllNotApplicable ==
    (/\ fn \in DOMAIN RowMinimum
     /\ Short(RowMinimum[fn])
     /\ fn = "evaluate_warrant7" =>
            (args.alternatives_tried /\ args.correctable_crashes >= 5))
        => result.met = "None"

\* C2 as amended: on a missing series or one below the row minimum,
\* Warrants 1, 2 and 3 give NotApplicable, while Warrant 7 gives not met
\* (met = False): by its alternatives gate, by its crash gate, or, both
\* passed, with its own insufficient-data explanation; each returns a
\* verdict
C2_ShortSeries ==
    (fn \in DOMAIN RowMinimum /\ Short(RowMinimum[fn])) =>
        IF fn = "evaluate_warrant7"
        THEN /\ result.met = "False"
             /\ result.condition_c = FALSE
             /\ (args.alternatives_tried /\ args.correctable_crashes >= 5) =>
                    result.details.text = "NOT MET: Insufficient traffic data for volume analysis"
        ELSE /\ result.met = "None"
             /\ result.details.text \in
                    {"Insufficient data (need at least 8 hours)",
                     "Insufficient data (need at least 4 hours)",
                     "Insufficient data"}

\* Warrant 7 on 7 rows, both earlier gates passed: not met, not NotApplicable
C2_Witness ==
    /\ fn = "evaluate_warrant7"
    /\ ~traffic_df.is_none /\ Len(traffic_df.rows) = 7
    /\ args.alternatives_tried /\ args.correctable_crashes >= 5
    /\ result.met = "False"

C2_ReachW1Short ==
    fn = "evaluate_warrant1" /\ ~traffic_df.is_none /\ Len(traffic_df.rows) = 7
        /\ result.met = "None"

-----------------------------------------------------------------------------
\* Warrant 1 has run on the inputs of Scenarios A and B, the speed left open
ScenarioAB ==
    /\ fn = "evaluate_warrant1"
    /\ ArgLaneKey = <<1, 1>>
    /\ args.population = 15000
    /\ ~traffic_df.is_none /\ Len(traffic_df.rows) = 8
    /\ \A i \in Hours : MajorVol(i) = 600 /\ MinorVol(i) = 200

(* C3: Scenarios A and B.  Lane key (1,1), population 15000, 8 rows all at *)
(* major 600 and minor 200.  At 35 mph the tier is '100', the Condition A  *)
(* pair (500,150) holds in all 8 hours and the Condition B pair (750,75)   *)
(* in none: met, 'A', hours_met 8.  At 45 mph the tier is '70' and the     *)
(* Condition A pair (350,105) holds in all 8 hours: met, 'A'.              *)
C3_ScenariosAB ==
    ScenarioAB =>
        /\ args.speed = 35 =>
            /\ result.threshold_used.pct = "100"
            /\ result.threshold_used.condition_a = <<500, 150>>
            /\ result.threshold_used.condition_b = <<750, 75>>
            /\ \A i \in Hours : result.hourly_results[i].meets_a
                                    /\ ~result.hourly_results[i].meets_b
            /\ result.met = "True" /\ result.condition = "A" /\ result.hours_met = 8
        /\ args.speed = 45 =>
            /\ result.threshold_used.pct = "70"
            /\ result.threshold_used.condition_a = <<350, 105>>
            /\ \A i \in Hours : result.hourly_results[i].meets_a
            /\ result.met = "True" /\ result.condition = "A"

\* Scenario B has run
C3_Witness == ScenarioAB /\ args.speed = 45 /\ result.condition = "A"

\* Scenario A has run
C3_ReachScenarioA == ScenarioAB /\ args.speed = 35 /\ result.hours_met = 8

-----------------------------------------------------------------------------
(* Reading a curve of the tables, stated apart from interpolate_threshold. *)
(* x is a rational [num, den]; the curves of the tables are in ascending   *)
(* order of major_vph.                                                     *)

\* x lies below the first breakpoint: the threshold is NotApplicable
BelowRange(curve, x) == x.num < curve[1][1] * x.den

\* v >= the curve at x: the last threshold from the last breakpoint on, and
\* the line between the two breakpoints around x before it
ReachesCurve(curve, x, v) ==
    \E i \in 1..Len(curve) :
        \/ /\ i = Len(curve)
           /\ x.num >= curve[i][1] * x.den
           /\ v >= curve[i][2]
        \/ /\ i < Len(curve)
           /\ curve[i][1] * x.den <= x.num
           /\ x.num < curve[i + 1][1] * x.den
           /\ (v - curve[i][2]) * (curve[i + 1][1] - curve[i][1]) * x.den
                  >= (curve[i + 1][2] - curve[i][2]) * (x.num - curve[i][1] * x.den)

\* the threshold is not NotApplicable and v reaches it
Passes(curve, x, v) == ~BelowRange(curve, x) /\ ReachesCurve(curve, x, v)

Whole(n) == [num |-> n, den |-> 1]

W2Curve == WARRANT2_CURVES[PrimaryTier][ArgLaneKey]

W3Curve == WARRANT3_CURVES[PrimaryTier][ArgLaneKey]

HourPassesW2(i) == Passes(W2Curve, Whole(MajorVol(i)), MinorVol(i))

HourPassesW3(i) == Passes(W3Curve, Whole(MajorVol(i)), MinorVol(i))

-----------------------------------------------------------------------------
(* C4: Warrant 2 gives NotApplicable below 4 rows; otherwise the tier is   *)
(* '70' if speed > 40 or population < 10000, else '100'; an hour passes    *)
(* iff the threshold of the tier and lane-key curve at its major volume is *)
(* not NotApplicable and its minor volume reaches it; hours_met is the     *)
(* number of passing hours and the verdict is met iff hours_met >= 4.      *)
C4_W2FourHour ==
    fn = "evaluate_warrant2" =>
        IF Short(4) THEN result.met = "None"
        ELSE /\ result.pct = PrimaryTier
             /\ \A i \in Hours : result.hourly_results[i].above_curve = HourPassesW2(i)
             /\ result.hours_met = Cardinality({i \in Hours : HourPassesW2(i)})
             /\ result.met = PyBool(result.hours_met >= 4)

\* met on exactly 4 passing hours, with hours below the curve's range
C4_Witness ==
    /\ fn = "evaluate_warrant2" /\ ~Short(4)
    /\ result.met = "True" /\ result.hours_met = 4
    /\ \E i \in Hours : BelowRange(W2Curve, Whole(MajorVol(i)))

C4_ReachThreeHours ==
    fn = "evaluate_warrant2" /\ ~Short(4) /\ result.met = "False" /\ result.hours_met = 3

-----------------------------------------------------------------------------
\* the first hour, in input order, with the largest major + minor total
PeakIndex ==
    CHOOSE k \in Hours :
        /\ \A j \in Hours : MajorVol(j) + MinorVol(j) <= MajorVol(k) + MinorVol(k)
        /\ \A j \in 1..(k - 1) : MajorVol(j) + MinorVol(j) < MajorVol(k) + MinorVol(k)

(* C5: Warrant 3 gives NotApplicable on no rows; otherwise the evaluated   *)
(* hour is the row with the largest major + minor total, the first such    *)
(* row on a tie, and the verdict is met iff the threshold at that row's    *)
(* major volume is not NotApplicable and that row's minor volume reaches   *)
(* it, whatever the other rows are.                                        *)
C5_W3PeakHour ==
    fn = "evaluate_warrant3" =>
        IF Short(1) THEN result.met = "None"
        ELSE LET k == PeakIndex
             IN  /\ result.peak_hour = traffic_df.rows[k].Hour
                 /\ result.peak_major = MajorVol(k)
                 /\ result.peak_minor = MinorVol(k)
                 /\ result.met = PyBool(HourPassesW3(k))

\* a tie on the total: the first row decides, not met, while a later row of
\* the same total would have passed
C5_Witness ==
    /\ fn = "evaluate_warrant3" /\ ~Short(1)
    /\ result.met = "False"
    /\ result.peak_hour = 1
    /\ \E j \in Hours :
           /\ j > 1
           /\ MajorVol(j) + MinorVol(j) = MajorVol(1) + MinorVol(1)
           /\ HourPassesW3(j)

C5_ReachMet ==
    fn = "evaluate_warrant3" /\ ~Short(1) /\ result.met = "True" /\ result.peak_hour > 1

-----------------------------------------------------------------------------
\* Scenario C: one hour of major volume 250, lane key (1,1), tier 100
ScenarioC ==
    /\ fn = "evaluate_warrant3"
    /\ ArgLaneKey = <<1, 1>>
    /\ ~ArgReduced
    /\ ~traffic_df.is_none /\ Len(traffic_df.rows) = 1
    /\ MajorVol(1) = 250

RangeNote == "NOT MET: Major volume below curve range"

-----------------------------------------------------------------------------
\* every hour of the series has its major volume below the curve's range
AllHoursBelowW2 == \A i \in Hours : BelowRange(W2Curve, Whole(MajorVol(i)))

\* the explanations Warrant 2 gives when hours in range fail the threshold
W2FailureDetails ==
    {[text |-> "NOT MET: {hours_above}/4 hours above curve ({pct}%)", vals |-> <<k, pct>>] :
        k \in 0..3, pct \in {"100", "70"}}

\* C7 as stated: in Warrant 3 and in Warrant 2, a verdict that is not met
\* because the major volume lies below the first breakpoint is met = False
\* with an explanation that tells the range miss from a threshold failure
C7_RangeNoteInBoth ==
    /\ (fn = "evaluate_warrant3" /\ ~Short(1)
            /\ BelowRange(W3Curve, Whole(MajorVol(PeakIndex)))) =>
           (result.met = "False" /\ result.details.text = RangeNote)
    /\ (fn = "evaluate_warrant2" /\ ~Short(4) /\ AllHoursBelowW2) =>
           (result.met = "False" /\ result.details \notin W2FailureDetails)

\* C7 as amended: Warrant 3 gives met = False with the range explanation
\* when the peak hour's major volume lies below the first breakpoint.
\* Warrant 2 never counts an hour below the first breakpoint as passing and
\* records its threshold as None in the per-hour detail; when every hour is
\* below the range the verdict is met = False, and its explanation is the
\* hour count alone, the one a threshold failure of every hour gives
C7_RangeMiss ==
    /\ (fn = "evaluate_warrant3" /\ ~Short(1)
            /\ BelowRange(W3Curve, Whole(MajorVol(PeakIndex)))) =>
           (result.met = "False" /\ result.details.text = RangeNote)
    /\ (fn = "evaluate_warrant2" /\ ~Short(4)) =>
           /\ \A i \in Hours :
                  BelowRange(W2Curve, Whole(MajorVol(i))) =>
                      /\ result.hourly_results[i].threshold.kind = "None"
                      /\ ~result.hourly_results[i].above_curve
           /\ AllHoursBelowW2 =>
                  /\ result.met = "False"
                  /\ result.details =
                         [text |-> "NOT MET: {hours_above}/4 hours above curve ({pct}%)",
                          vals |-> <<0, result.pct>>]

\* Warrant 2 has run on a series whose every hour is below the range
C7_Witness ==
    fn = "evaluate_warrant2" /\ ~Short(4) /\ AllHoursBelowW2 /\ result.met = "False"

C7_ReachW3RangeMiss ==
    /\ fn = "evaluate_warrant3" /\ ~Short(1)
    /\ BelowRange(W3Curve, Whole(MajorVol(PeakIndex)))
    /\ Len(traffic_df.rows) > 1

-----------------------------------------------------------------------------
(* C8: Warrant 4 applies its gates in a fixed order.  A distance to the    *)
(* nearest signal below 300 ft gives not met whatever the other inputs,    *)
(* a missing series included; otherwise 60 or more adequate gaps per hour  *)
(* give not met whatever remains; only past both gates does a missing or   *)
(* empty series give NotApplicable.                                        *)
C8_W4GateOrder ==
    fn = "evaluate_warrant4" =>
        IF args.dist_to_signal < 300
        THEN /\ result.met = "False"
             /\ result.details.text = "NOT MET: Distance to nearest signal < 300 ft"
        ELSE IF args.gaps_per_hour >= 60
        THEN /\ result.met = "False"
             /\ result.details.text =
                    "NOT MET: Adequate gaps ({gaps_per_hour}/hr) >= 60 required maximum"
        ELSE Short(1) =>
                /\ result.met = "None"
                /\ result.details.text = "Insufficient traffic data"

\* too close to a signal, with too many gaps and no series: the distance
\* gate answers
C8_Witness ==
    /\ fn = "evaluate_warrant4"
    /\ args.dist_to_signal < 300 /\ args.gaps_per_hour >= 60 /\ traffic_df.is_none
    /\ result.met = "False"

C8_ReachGapsGate ==
    /\ fn = "evaluate_warrant4"
    /\ args.dist_to_signal >= 300 /\ args.gaps_per_hour >= 60 /\ Short(1)
    /\ result.met = "False"

C8_ReachNotApplicable ==
    fn = "evaluate_warrant4" /\ Len(traffic_df.rows) = 0 /\ ~traffic_df.is_none
        /\ result.met = "None"

-----------------------------------------------------------------------------
\* the place of hour i among the hours in descending order of major volume,
\* the earlier hour first among equal volumes
RankByMajor(i) ==
    1 + Cardinality({j \in Hours :
            \/ MajorVol(j) > MajorVol(i)
            \/ MajorVol(j) = MajorVol(i) /\ j < i})

\* the sum of the major volumes of the hours 1..n that rank in the top 4
RECURSIVE SumTop4(_)
SumTop4(n) ==
    IF n = 0 THEN 0
    ELSE (IF RankByMajor(n) <= 4 THEN MajorVol(n) ELSE 0) + SumTop4(n - 1)

\* the average of the top-4 major-volume hours, of all hours when fewer
Top4Average ==
    [num |-> SumTop4(Len(traffic_df.rows)),
     den |-> IF Len(traffic_df.rows) < 4 THEN Len(traffic_df.rows) ELSE 4]

\* the largest major volume of the series
LargestMajor ==
    CHOOSE v \in {MajorVol(i) : i \in Hours} : \A i \in Hours : MajorVol(i) <= v

W4Reduced == args.speed > 35 \/ args.population < 10000

W4FourHourCurve ==
    IF W4Reduced THEN WARRANT4_CURVES.four_hour_70 ELSE WARRANT4_CURVES.four_hour_100

W4PeakHourCurve ==
    IF W4Reduced THEN WARRANT4_CURVES.peak_hour_70 ELSE WARRANT4_CURVES.peak_hour_100

\* both gates passed and a series with rows is there
W4PastGates ==
    /\ fn = "evaluate_warrant4"
    /\ args.dist_to_signal >= 300 /\ args.gaps_per_hour < 60
    /\ ~Short(1)

(* C9: Warrant 4 past both gates with a series.  The tier is '70' iff      *)
(* speed > 35 or population < 10000; four_hour_met iff the four_hour curve *)
(* at the average of the top-4 major-volume hours is not NotApplicable and *)
(* the 4-hour pedestrian average reaches it; peak_hour_met iff the         *)
(* peak_hour curve at the largest major volume is not NotApplicable and    *)
(* the peak pedestrian count reaches it; met is their disjunction; the     *)
(* criterion is 'Four-Hour' whenever four_hour_met, 'Peak Hour' when only  *)
(* the peak check passes, and none when not met.                           *)
C9_W4CurveChecks ==
    W4PastGates =>
        LET four == Passes(W4FourHourCurve, Top4Average, args.ped_4hr)
            peak == Passes(W4PeakHourCurve, Whole(LargestMajor), args.ped_peak)
        IN  /\ result.pct = (IF W4Reduced THEN "70" ELSE "100")
            /\ result.four_hour_met = four
            /\ result.peak_hour_met = peak
            /\ result.met = PyBool(four \/ peak)
            /\ result.criterion =
                   (IF four THEN "Four-Hour" ELSE IF peak THEN "Peak Hour" ELSE "None")

\* both checks pass, on an average that is no whole number, and the
\* criterion is 'Four-Hour'
C9_Witness ==
    /\ W4PastGates
    /\ result.four_hour_met /\ result.peak_hour_met
    /\ result.criterion = "Four-Hour"
    /\ Top4Average.num % Top4Average.den # 0

C9_ReachPeakOnly ==
    W4PastGates /\ ~result.four_hour_met /\ result.criterion = "Peak Hour"

C9_ReachFourHourOnly ==
    W4PastGates /\ result.four_hour_met /\ ~result.peak_hour_met

C9_ReachNotMet ==
    W4PastGates /\ result.met = "False" /\ result.four_hour_threshold.kind = "num"

C9_ReachFourHourNone ==
    W4PastGates /\ result.four_hour_threshold.kind = "None"
        /\ result.peak_hour_threshold.kind = "num"

-----------------------------------------------------------------------------
(* C10: Warrant 5 gives NotApplicable without a designated crossing;       *)
(* otherwise fewer than 20 children give not met; otherwise the verdict is *)
(* met iff the adequate gaps are strictly fewer than the minutes of the    *)
(* crossing period.  With 25 children and a period of 30: 20 gaps are met, *)
(* 35 gaps and 30 gaps are not met.                                        *)
C10_W5SchoolCrossing ==
    fn = "evaluate_warrant5" =>
        /\ IF ~args.school_crossing THEN result.met = "None"
           ELSE IF args.school_children < 20 THEN result.met = "False"
           ELSE result.met = PyBool(args.school_gaps < args.crossing_period_minutes)
        /\ (/\ args.school_crossing
            /\ args.school_children = 25
            /\ args.crossing_period_minutes = 30) =>
               /\ args.school_gaps = 20 => result.met = "True"
               /\ args.school_gaps = 35 => result.met = "False"
               /\ args.school_gaps = 30 => result.met = "False"

\* as many gaps as minutes: not met
C10_Witness ==
    /\ fn = "evaluate_warrant5"
    /\ args.school_crossing /\ args.school_children = 25
    /\ args.crossing_period_minutes = 30 /\ args.school_gaps = 30
    /\ result.met = "False"

C10_ReachScenarioD ==
    /\ fn = "evaluate_warrant5"
    /\ args.school_crossing /\ args.school_children = 25
    /\ args.crossing_period_minutes = 30 /\ args.school_gaps = 20
    /\ result.met = "True"

-----------------------------------------------------------------------------
\* the hours that qualify for Warrant 7: either Warrant 1 pair at the 80 tier
\* holds, or the minor volume reaches the Warrant 3 curve of the general tier
W7QualifyingHours ==
    LET a == WARRANT1_THRESHOLDS["condition_a"][ArgLaneKey]["80"]
        b == WARRANT1_THRESHOLDS["condition_b"][ArgLaneKey]["80"]
    IN  {i \in Hours :
            \/ MajorVol(i) >= a[1] /\ MinorVol(i) >= a[2]
            \/ MajorVol(i) >= b[1] /\ MinorVol(i) >= b[2]
            \/ HourPassesW3(i)}

\* the explanations of the three gates of Warrant 7
W7AlternativesNote == {"NOT MET: Adequate trial of alternatives not documented"}

W7CrashesNote ==
    {"NOT MET: {correctable_crashes} correctable crashes < 5 required (12-month period)"}

W7VolumeNote ==
    {"NOT MET: Insufficient traffic data for volume analysis",
     "NOT MET: Volume requirement - only {hours_meeting_volume}/8 hours meet threshold"}

(* C11: Warrant 7 tests its gates in order and stops at the first that     *)
(* fails: no trial of alternatives gives not met with condition_a false;   *)
(* else fewer than 5 correctable crashes give not met with condition_a     *)
(* true and condition_b false; else fewer than 8 rows or fewer than 8      *)
(* qualifying hours give not met with condition_a and condition_b true and *)
(* condition_c false.  The explanations of the three gates differ, and in  *)
(* every verdict met = condition_a /\ condition_b /\ condition_c, with     *)
(* condition_c implying condition_b implying condition_a.                  *)
C11_W7GateOrder ==
    fn = "evaluate_warrant7" =>
        /\ IF ~args.alternatives_tried
           THEN /\ result.met = "False" /\ ~result.condition_a
                /\ result.details.text \in W7AlternativesNote
           ELSE IF args.correctable_crashes < 5
           THEN /\ result.met = "False"
                /\ result.condition_a /\ ~result.condition_b
                /\ result.details.text \in W7CrashesNote
           ELSE IF Short(8) \/ Cardinality(W7QualifyingHours) < 8
           THEN /\ result.met = "False"
                /\ result.condition_a /\ result.condition_b /\ ~result.condition_c
                /\ result.details.text \in W7VolumeNote
           ELSE result.met = "True"
        /\ W7AlternativesNote \cap W7CrashesNote = {}
        /\ W7AlternativesNote \cap W7VolumeNote = {}
        /\ W7CrashesNote \cap W7VolumeNote = {}
        /\ result.met = PyBool(result.condition_a /\ result.condition_b /\ result.condition_c)
        /\ result.condition_c => result.condition_b
        /\ result.condition_b => result.condition_a

\* the crash gate stops a call whose series has 8 qualifying hours
C11_Witness ==
    /\ fn = "evaluate_warrant7"
    /\ args.alternatives_tried /\ args.correctable_crashes < 5
    /\ ~Short(8) /\ Cardinality(W7QualifyingHours) >= 8
    /\ result.met = "False" /\ result.condition_a /\ ~result.condition_b

\* the alternatives gate stops a call that fails the crash gate as well
C11_ReachAlternativesGate ==
    /\ fn = "evaluate_warrant7"
    /\ ~args.alternatives_tried /\ args.correctable_crashes < 5
    /\ ~result.condition_a

C11_ReachVolumeGate ==
    /\ fn = "evaluate_warrant7"
    /\ args.alternatives_tried /\ args.correctable_crashes >= 5
    /\ ~Short(8) /\ Cardinality(W7QualifyingHours) = 7
    /\ ~result.condition_c

C11_ReachMet ==
    fn = "evaluate_warrant7" /\ result.met = "True"

-----------------------------------------------------------------------------
\* Warrant 7 has passed its first two gates and has 8 rows or more
W7PastGates ==
    /\ fn = "evaluate_warrant7"
    /\ args.alternatives_tried /\ args.correctable_crashes >= 5
    /\ ~Short(8)

C12_ReachPairOnly ==
    /\ W7PastGates
    /\ \E i \in Hours : /\ result.hourly_results[i].meets_volume
                        /\ ~result.hourly_results[i].meets_w3

C12_ReachSevenHours ==
    W7PastGates /\ result.hours_meeting_volume = 7 /\ ~result.condition_c

-----------------------------------------------------------------------------
(* C13: Warrant 9 gives NotApplicable without a grade crossing; otherwise  *)
(* a queuing distance above 140 ft gives not met whatever the train        *)
(* frequency and the preemption are (150 ft with 10 trains a day and       *)
(* preemption needed is not met); otherwise, 140 ft included, the verdict  *)
(* is met iff train_frequency > 0 and preemption is needed.                *)
C13_W9GradeCrossing ==
    fn = "evaluate_warrant9" =>
        /\ IF ~args.railroad_crossing THEN result.met = "None"
           ELSE IF args.queuing_distance > 140 THEN result.met = "False"
           ELSE result.met = PyBool(args.train_frequency > 0 /\ args.preemption_needed)
        /\ (/\ args.railroad_crossing
            /\ args.queuing_distance = 150
            /\ args.train_frequency = 10
            /\ args.preemption_needed) => result.met = "False"

\* Scenario E has run: 150 ft, 10 trains a day, preemption needed
C13_Witness ==
    /\ fn = "evaluate_warrant9"
    /\ args.railroad_crossing /\ args.queuing_distance = 150
    /\ args.train_frequency = 10 /\ args.preemption_needed
    /\ result.met = "False"

\* at 140 ft the distance gate lets the call through
C13_ReachAt140 ==
    /\ fn = "evaluate_warrant9"
    /\ args.queuing_distance = 140 /\ result.met = "True"

C13_ReachNoTrains ==
    /\ fn = "evaluate_warrant9"
    /\ args.railroad_crossing /\ args.queuing_distance = 140
    /\ args.train_frequency = 0 /\ args.preemption_needed
    /\ result.met = "False"

-----------------------------------------------------------------------------
(* C14: Warrant 6 gives NotApplicable outside a coordinated system;        *)
(* otherwise the verdict is met iff 1000 <= signal spacing <= 2640 ft,     *)
(* both ends included, whatever the progression speed is.                  *)
C14_W6SpacingBand ==
    fn = "evaluate_warrant6" =>
        IF ~args.coordinated_system THEN result.met = "None"
        ELSE result.met =
                PyBool(1000 <= args.signal_spacing /\ args.signal_spacing <= 2640)

\* the upper end of the band is met, at a progression speed off the default
C14_Witness ==
    /\ fn = "evaluate_warrant6"
    /\ args.coordinated_system /\ args.signal_spacing = 2640
    /\ args.progression_speed = 25
    /\ result.met = "True"

C14_ReachLowerEnd ==
    /\ fn = "evaluate_warrant6"
    /\ args.coordinated_system /\ args.signal_spacing = 1000 /\ result.met = "True"

C14_ReachBelow ==
    /\ fn = "evaluate_warrant6"
    /\ args.coordinated_system /\ args.signal_spacing = 999 /\ result.met = "False"

C14_ReachAbove ==
    /\ fn = "evaluate_warrant6"
    /\ args.coordinated_system /\ args.signal_spacing = 2641 /\ result.met = "False"

-----------------------------------------------------------------------------
\* the verdict in hand carries the advisory tag
Tagged == "engineering_judgment" \in DOMAIN result /\ result.engineering_judgment

(* C15: every verdict of the two warrants of engineering judgment,         *)
(* Warrants 6 and 8, carries the advisory tag engineering_judgment = true, *)
(* be it met, not met or NotApplicable.                                    *)
C15_AlwaysTagged ==
    fn \in {"evaluate_warrant6", "evaluate_warrant8"} => Tagged

\* what the evaluators do: every verdict of Warrant 8 is tagged, and a
\* verdict of Warrant 6 is tagged iff the system is coordinated
C15_TaggedUnlessNotCoordinated ==
    /\ fn = "evaluate_warrant8" => Tagged
    /\ fn = "evaluate_warrant6" => (Tagged <=> args.coordinated_system)

\* Warrant 6 outside a coordinated system: NotApplicable, and no tag
C15_ReachUntagged ==
    fn = "evaluate_warrant6" /\ ~args.coordinated_system /\ result.met = "None" /\ ~Tagged

C15_ReachW8NotApplicableTagged ==
    fn = "evaluate_warrant8" /\ result.met = "None" /\ Tagged

-----------------------------------------------------------------------------
(* C16: Warrant 8 gives NotApplicable without network continuity;          *)
(* otherwise the verdict is met iff the route is designated and the        *)
(* projected volumes are there; a designated route without projected       *)
(* volumes gives not met with an explanation other than the one of a       *)
(* route that is not designated.                                           *)
C16_W8RoadwayNetwork ==
    fn = "evaluate_warrant8" =>
        IF ~args.network_continuity THEN result.met = "None"
        ELSE /\ result.met = PyBool(args.route_designation /\ args.future_volumes)
             /\ (args.route_designation /\ ~args.future_volumes) =>
                    result.details.text =
                        "NOT MET: Route designated but projected volumes insufficient"
             /\ ~args.route_designation =>
                    result.details.text = "NOT MET: Not on designated route network"

\* a designated route without projected volumes
C16_Witness ==
    /\ fn = "evaluate_warrant8"
    /\ args.network_continuity /\ args.route_designation /\ ~args.future_volumes
    /\ result.met = "False"

C16_ReachNotDesignated ==
    /\ fn = "evaluate_warrant8"
    /\ args.network_continuity /\ ~args.route_designation /\ args.future_volumes
    /\ result.met = "False"

C16_ReachMet ==
    fn = "evaluate_warrant8" /\ result.met = "True"

-----------------------------------------------------------------------------
(* Reading the ends of a curve given in any order, stated apart from the   *)
(* sort of interpolate_threshold.                                          *)

\* the lowest and the highest major_vph of a curve
LowestMajor(curve) ==
    CHOOSE x \in {curve[i][1] : i \in DOMAIN curve} :
        \A i \in DOMAIN curve : x <= curve[i][1]

HighestMajor(curve) ==
    CHOOSE x \in {curve[i][1] : i \in DOMAIN curve} :
        \A i \in DOMAIN curve : curve[i][1] <= x

\* the last point of the curve in order of major_vph; among points of the
\* same major_vph, the one given last
LastPoint(curve) ==
    curve[CHOOSE i \in DOMAIN curve :
              /\ curve[i][1] = HighestMajor(curve)
              /\ \A j \in DOMAIN curve : curve[j][1] = HighestMajor(curve) => j <= i]

(* C17: the edges of interpolate_threshold.  For any non-empty curve, a    *)
(* major_vol below the first point's major_vph gives NotApplicable (None,  *)
(* not zero), and any major_vol at or above the last point's major_vph     *)
(* gives exactly the last point's minor threshold, however far above.      *)
C17_InterpolatorEdges ==
    (fn = "interpolate_threshold" /\ args.curve_points # <<>>) =>
        LET curve == args.curve_points
            x     == args.major_vol
        IN  /\ x.num < LowestMajor(curve) * x.den =>
                   result.value = NoneNum
            /\ x.num >= HighestMajor(curve) * x.den =>
                   result.value = Num(LastPoint(curve)[2])

\* far above the last point of a curve given out of order: the threshold of
\* the point of highest major_vph, which is not the one given last
C17_Witness ==
    /\ fn = "interpolate_threshold"
    /\ Len(args.curve_points) = 3
    /\ args.curve_points[3][1] < args.curve_points[1][1]
    /\ args.curve_points[1][1] = HighestMajor(args.curve_points)
    /\ args.curve_points[3][2] # args.curve_points[1][2]
    /\ args.major_vol = Num(1200)
    /\ result.value = Num(args.curve_points[1][2])

C17_ReachBelow ==
    /\ fn = "interpolate_threshold"
    /\ args.curve_points \in TableCurves
    /\ args.major_vol.den = 4
    /\ result.value.kind = "None"

C17_ReachAtLastPoint ==
    /\ fn = "interpolate_threshold"
    /\ args.curve_points \in TableCurves
    /\ args.major_vol = Num(HighestMajor(args.curve_points))
    /\ result.value.kind = "num"

-----------------------------------------------------------------------------
\* the minor thresholds of a curve never rise along the curve
NonIncreasing(curve) ==
    \A i \in 1..(Len(curve) - 1) : curve[i][2] >= curve[i + 1][2]

(* C18: monotonicity.  Every curve of the threshold tables has minor       *)
(* thresholds that never rise as major_vph rises, and on each of them      *)
(* interpolate_threshold never rises in major_vol over the major volumes   *)
(* at or above the curve's first breakpoint.                               *)
C18_InterpolatorMonotone ==
    /\ \A curve \in TableCurves : NonIncreasing(curve)
    /\ (/\ fn = "interpolate_threshold"
        /\ args.curve_points \in TableCurves
        /\ args.major_vol.num >= LowestMajor(args.curve_points) * args.major_vol.den) =>
           /\ result.value.kind = "num"
           /\ \A v \in MajorVolumes :
                  RatGeq(v, args.major_vol) =>
                      LET later == interpolate_threshold(args.curve_points, v)
                      IN  later.kind = "num" /\ RatGeq(result.value, later)

\* inside a falling segment of a table curve: the threshold is no whole
\* number and a larger major volume of the same segment has a lower one
C18_Witness ==
    /\ fn = "interpolate_threshold"
    /\ args.curve_points \in TableCurves
    /\ result.value.kind = "num" /\ result.value.den # 1
    /\ \E v \in MajorVolumes :
           /\ RatGeq(v, args.major_vol)
           /\ RatLt(v, Rat(args.major_vol.num + 10 * args.major_vol.den, args.major_vol.den))
           /\ RatLt(interpolate_threshold(args.curve_points, v), result.value)

-----------------------------------------------------------------------------
\* the tier of a speed and a population: reduced iff speed > 40 or
\* population < 10000
TierOf(speed, population, full, reduced) ==
    IF speed > 40 \/ population < 10000 THEN reduced ELSE full

C19_ReachW4Reduced ==
    /\ W4PastGates
    /\ args.speed = 40 /\ args.population = 10000
    /\ result.pct = "70"

C19_ReachW7Full ==
    W7PastGates /\ args.speed = 40 /\ args.population = 10000 /\ result.pct = "100"

C19_ReachCombinationReduced ==
    /\ fn = "evaluate_warrant1"
    /\ result.condition = "A+B" /\ result.details.vals = <<"56">>

C19_ReachByPopulation ==
    /\ fn = "evaluate_warrant2" /\ ~Short(4)
    /\ args.speed = 35 /\ args.population = 9999 /\ result.pct = "70"

-----------------------------------------------------------------------------
\* the verdicts of Warrants 5, 6, 8 and 9 read off the session state
SessionMet ==
    [w5 |-> IF ~args.school[1] THEN "None"
            ELSE PyBool(args.school[2] >= 20 /\ args.school[3] < 30),
     w6 |-> IF ~args.coord[1] THEN "None"
            ELSE PyBool(1000 <= args.coord[2] /\ args.coord[2] <= 2640),
     w8 |-> IF ~args.net[1] THEN "None" ELSE PyBool(args.net[2] /\ args.net[3]),
     w9 |-> IF ~args.rail[1] THEN "None"
            ELSE PyBool(args.rail[3] <= 140 /\ args.rail[2] > 0 /\ args.rail[4])]

(* C20: the summary keeps the three states apart.  For each of the nine    *)
(* verdicts the status is the check mark with MET iff met is true, the     *)
(* cross with NOT MET iff met is false, and the dash iff met is            *)
(* NotApplicable; the count of satisfied warrants is the number of         *)
(* verdicts with met true, so a NotApplicable verdict is neither shown nor *)
(* counted as a negative or a positive determination.                      *)
C20_TriStateSummary ==
    fn = "render_results" =>
        /\ Len(result.met) = 9 /\ Len(result.status) = 9
        /\ result.met[5] = SessionMet.w5 /\ result.met[6] = SessionMet.w6
        /\ result.met[8] = SessionMet.w8 /\ result.met[9] = SessionMet.w9
        /\ Short(8) => result.met[1] = "None"
        /\ Short(4) => result.met[2] = "None"
        /\ Short(1) => result.met[3] = "None"
        /\ \A k \in 1..9 :
               /\ result.status[k] = StatusMet <=> result.met[k] = "True"
               /\ result.status[k] = StatusNotMet <=> result.met[k] = "False"
               /\ result.status[k] = StatusDash <=> result.met[k] = "None"
        /\ result.met_count = Cardinality({k \in 1..9 : result.met[k] = "True"})
        /\ result.banner = "success" <=> (\E k \in 1..9 : result.met[k] = "True")

\* a run with verdicts of all three kinds: the dashes are not counted
C20_Witness ==
    /\ fn = "render_results"
    /\ \E i, j, k \in 1..9 :
           /\ result.met[i] = "None" /\ result.status[i] = StatusDash
           /\ result.met[j] = "False" /\ result.status[j] = StatusNotMet
           /\ result.met[k] = "True" /\ result.status[k] = StatusMet
    /\ result.met_count = Cardinality({k \in 1..9 : result.status[k] = StatusMet})
    /\ result.met_count >= 2

\* no series and no flag set: no warrant is satisfied, none but Warrants 4
\* and 7 is shown as not met
C20_ReachNothingApplies ==
    /\ fn = "render_results"
    /\ traffic_df.is_none
    /\ result.met_count = 0 /\ result.banner = "warning"
    /\ \A k \in {1, 2, 3, 5, 6, 8, 9} : result.status[k] = StatusDash

C20_ReachAllNine ==
    fn = "render_results" /\ result.met_count = 9

-----------------------------------------------------------------------------
(* The numbers an explanation cites, as a reader parses them back from the *)
(* string: details.vals holds each number as it was formatted.             *)

Cited == result.details.vals

\* the hours of the per-hour detail on which a flag is set
HoursFlagged(flag) == Cardinality({i \in Hours : result.hourly_results[i][flag]})

(* C21: round trip of the evidence.  For every verdict whose explanation   *)
(* cites numbers (Warrant 1 hour counts and tier, Warrant 2 hours, Warrant *)
(* 3 peak minor volume and threshold, Warrant 4 pedestrian counts and      *)
(* thresholds, Warrant 7 hours), the cited numbers parsed back are exactly *)
(* the counts and thresholds the decision used, and comparing the cited    *)
(* numbers gives the outcome of the verdict.                               *)
C21_EvidenceRoundTrip ==
    /\ (fn = "evaluate_warrant1" /\ ~Short(8)) =>
           LET a == HoursFlagged("meets_a")
               b == HoursFlagged("meets_b")
           IN  IF result.condition = "A"
               THEN Cited = <<a, result.threshold_used.pct>> /\ Cited[1] >= 8
               ELSE IF result.condition = "B"
               THEN Cited = <<b, result.threshold_used.pct>> /\ Cited[1] >= 8
               ELSE IF result.condition = "A+B"
               THEN Cited = <<ComboTier>>
               ELSE Cited = <<a, b>> /\ Cited[1] < 8 /\ Cited[2] < 8
    /\ (fn = "evaluate_warrant2" /\ ~Short(4)) =>
           /\ Cited = <<HoursFlagged("above_curve"), result.pct>>
           /\ result.met = PyBool(Cited[1] >= 4)
    /\ (fn = "evaluate_warrant3" /\ ~Short(1) /\ Cited # <<>>) =>
           /\ Cited[2] = result.peak_minor
           /\ Num(Cited[3]) = result.threshold
           /\ result.met = PyBool(Cited[2] >= Cited[3])
    /\ W4PastGates =>
           IF result.criterion = "Four-Hour"
           THEN /\ Cited[1] = args.ped_4hr
                /\ Num(Cited[2]) = result.four_hour_threshold
                /\ Cited[1] >= Cited[2]
           ELSE IF result.criterion = "Peak Hour"
           THEN /\ Cited[1] = args.ped_peak
                /\ Num(Cited[2]) = result.peak_hour_threshold
                /\ Cited[1] >= Cited[2]
           ELSE /\ Cited[1] = args.ped_4hr /\ Cited[3] = args.ped_peak
                /\ Truthy(result.four_hour_threshold) =>
                       /\ Num(Cited[2]) = result.four_hour_threshold
                       /\ Cited[1] < Cited[2]
                /\ Truthy(result.peak_hour_threshold) =>
                       /\ Num(Cited[4]) = result.peak_hour_threshold
                       /\ Cited[3] < Cited[4]
    /\ W7PastGates =>
           LET h == HoursFlagged("meets_volume")
           IN  IF result.met = "True"
               THEN Cited = <<args.correctable_crashes, h>> /\ Cited[2] >= 8
               ELSE Cited = <<h>> /\ Cited[1] < 8

\* what the evaluators do: the counts, the tiers, the peak minor volume and
\* the pedestrian counts are cited as the decision used them, and a
\* threshold is cited as the whole number nearest to the one the decision
\* used
C21_ThresholdsCitedRounded ==
    /\ (fn = "evaluate_warrant1" /\ ~Short(8) /\ result.met = "False") =>
           Cited = <<HoursFlagged("meets_a"), HoursFlagged("meets_b")>>
    /\ (fn = "evaluate_warrant2" /\ ~Short(4)) =>
           Cited = <<HoursFlagged("above_curve"), result.pct>>
    /\ (fn = "evaluate_warrant3" /\ ~Short(1) /\ Cited # <<>>) =>
           /\ Cited[2] = result.peak_minor
           /\ 2 * Abs(Cited[3] * result.threshold.den - result.threshold.num)
                  <= result.threshold.den
    /\ (W4PastGates /\ result.criterion = "Four-Hour") =>
           /\ Cited[1] = args.ped_4hr
           /\ 2 * Abs(Cited[2] * result.four_hour_threshold.den
                          - result.four_hour_threshold.num)
                  <= result.four_hour_threshold.den
    /\ (W7PastGates /\ result.met = "False") =>
           Cited = <<HoursFlagged("meets_volume")>>

\* Warrant 3 is not met on a minor volume of 148 against a threshold of
\* 148.2, and its explanation cites 148 against 148
C21_ReachDrift ==
    /\ fn = "evaluate_warrant3" /\ ~Short(1)
    /\ result.met = "False"
    /\ Cited # <<>>
    /\ Cited[2] >= Cited[3]
    /\ RatLt(Num(result.peak_minor), result.threshold)

\* Warrant 4 cites a threshold that is no whole number as a whole number
C21_ReachW4Rounded ==
    /\ W4PastGates /\ result.criterion = "Four-Hour"
    /\ result.four_hour_threshold.den # 1


-----------------------------------------------------------------------------
-----------------------------------------------------------------------------
(* C23: the evaluators and the interpolator have no side effect: no call   *)
(* changes the four static tables or the caller's traffic series (Warrant  *)
(* 3 adds its total to a copy), a call of the interpolator leaves the      *)
(* caller's curve as it was passed (the sort is on a copy), and so after   *)
(* any sequence of calls the tables are the ones the module defines.       *)
C23_NoSideEffect ==
    [][/\ tables' = tables
       /\ traffic_df' = traffic_df
       /\ tables' = StaticTables
       /\ fn' = "interpolate_threshold" => result'.caller_curve = args'.curve_points]_vars

\* Warrant 3 has found the peak of a series of eight hours, and the caller's
\* rows hold the columns they were loaded with
C23_ReachAfterW3 ==
    /\ fn = "evaluate_warrant3"
    /\ "met" \in DOMAIN result
    /\ result.met \in {"True", "False"}
    /\ ~traffic_df.is_none
    /\ Len(traffic_df.rows) = 8
    /\ \A i \in 1..8 : DOMAIN traffic_df.rows[i] = {"Hour", "Street1", "Street2"}

-----------------------------------------------------------------------------
-----------------------------------------------------------------------------
(* Totality of the evaluators.                                             *)

EvaluatorNames ==
    {"evaluate_warrant1", "evaluate_warrant2", "evaluate_warrant3",
     "evaluate_warrant4", "evaluate_warrant5", "evaluate_warrant6",
     "evaluate_warrant7", "evaluate_warrant8", "evaluate_warrant9"}

\* the per-hour detail of a verdict, empty where the evaluator returns before
\* its loop
HourlyDetail ==
    IF \/ fn = "evaluate_warrant1" /\ ~FewerThan(traffic_df, 8)
       \/ fn = "evaluate_warrant2" /\ ~FewerThan(traffic_df, 4)
       \/ fn = "evaluate_warrant7" /\ "hourly_results" \in DOMAIN result
    THEN result.hourly_results
    ELSE <<>>

(* C25: every evaluator is total on numeric inputs: whatever the volumes,  *)
(* lane counts, speed, population, pedestrian, crash, gap and distance     *)
(* values and flags, a call returns a verdict (nothing is raised) whose    *)
(* met is true, false or not applicable and whose explanation is a         *)
(* non-empty string; the per-hour detail holds each row of the series at   *)
(* most once, in the order of the rows, and no threshold in the verdict    *)
(* is the trace of an interpolator failure.                                *)
C25_EvaluatorsTotal ==
    fn \in EvaluatorNames =>
        /\ "raised" \notin DOMAIN result
        /\ "met" \in DOMAIN result
        /\ result.met \in {"True", "False", "None"}
        /\ "details" \in DOMAIN result
        /\ "text" \in DOMAIN result.details
        /\ result.details.text # ""
        /\ HourlyDetail # <<>> =>
              /\ Len(HourlyDetail) = Len(traffic_df.rows)
              /\ \A i \in 1..Len(HourlyDetail) :
                    HourlyDetail[i].hour = traffic_df.rows[i].Hour
        /\ \A f \in {"threshold", "four_hour_threshold", "peak_hour_threshold"} :
              f \in DOMAIN result => result[f].kind \in {"num", "None"}

\* Warrant 3 returns its verdict for a peak hour whose major volume is below
\* the range of the curve, where there is no threshold to format
C25_ReachNoThreshold ==
    /\ fn = "evaluate_warrant3"
    /\ "threshold" \in DOMAIN result
    /\ result.threshold = NoneNum
    /\ result.met = "False"
    /\ result.details.text = "NOT MET: Major volume below curve range"

-----------------------------------------------------------------------------
\* a curve as the tables are to hold it: each point further along major_vph
\* than the one before
StrictlyIncreasing(curve) ==
    \A i \in 1..(Len(curve) - 1) : curve[i][1] < curve[i + 1][1]

Malformed(curve) == curve = <<>> \/ ~StrictlyIncreasing(curve)

(* C26: malformed input fails loudly: a curve that is empty, or that is    *)
(* not strictly increasing in major_vph (points out of order, or two       *)
(* points with the same major_vph), is rejected with an error and never    *)
(* used to produce a threshold.                                            *)
C26_MalformedRejected ==
    (fn = "interpolate_threshold" /\ Malformed(args.curve_points)) =>
        result.value.kind = "IndexError"

\* what the function does: only the empty curve ends in an error, raised by
\* the read of its first point; every other curve is sorted and used
C26_OnlyEmptyRaises ==
    fn = "interpolate_threshold" =>
        (result.value.kind = "IndexError" <=> args.curve_points = <<>>)

\* a curve with the same major_vph twice, and different thresholds there, has
\* given a threshold
C26_ReachDuplicateUsed ==
    /\ fn = "interpolate_threshold"
    /\ \E i, j \in 1..Len(args.curve_points) :
          /\ i < j
          /\ args.curve_points[i][1] = args.curve_points[j][1]
          /\ args.curve_points[i][2] # args.curve_points[j][2]
    /\ result.value.kind = "num"

\* the empty curve has raised
C26_ReachEmptyRaises ==
    /\ fn = "interpolate_threshold"
    /\ args.curve_points = <<>>
    /\ result.value.kind = "IndexError"

-----------------------------------------------------------------------------
\* the point a major volume v is at or past: of the points with the highest
\* major_vph not above v, the one given last
LowerPoint(curve, v) ==
    curve[CHOOSE i \in DOMAIN curve :
              /\ curve[i][1] * v.den <= v.num
              /\ \A j \in DOMAIN curve :
                    curve[j][1] * v.den <= v.num =>
                        \/ curve[j][1] < curve[i][1]
                        \/ curve[j][1] = curve[i][1] /\ j <= i]

\* the point a major volume v is short of: of the points with the lowest
\* major_vph above v, the one given first
UpperPoint(curve, v) ==
    curve[CHOOSE i \in DOMAIN curve :
              /\ curve[i][1] * v.den > v.num
              /\ \A j \in DOMAIN curve :
                    curve[j][1] * v.den > v.num =>
                        \/ curve[j][1] > curve[i][1]
                        \/ curve[j][1] = curve[i][1] /\ i <= j]

InRange(curve, v) ==
    /\ curve # <<>>
    /\ LowestMajor(curve) * v.den <= v.num
    /\ v.num < HighestMajor(curve) * v.den

(* C27: interpolate_threshold in range.  For any curve, in whatever order  *)
(* its points are given, and any major_vol from the lowest major_vph up to *)
(* but not including the highest, the result is                            *)
(* y_i + (y_{i+1} - y_i) / (x_{i+1} - x_i) * (major_vol - x_i) on the one  *)
(* segment with x_i <= major_vol < x_{i+1} of the curve in order of        *)
(* major_vph; at a breakpoint it is exactly the breakpoint's threshold;    *)
(* the segment has a width above zero, so nothing is divided by zero, even *)
(* when two points of the curve have the same major_vph.                   *)
C27_InterpolatesInRange ==
    (fn = "interpolate_threshold" /\ InRange(args.curve_points, args.major_vol)) =>
        LET v == args.major_vol
            p == LowerPoint(args.curve_points, v)
            q == UpperPoint(args.curve_points, v)
            r == result.value
        IN  /\ r.kind = "num"
            /\ r.den > 0
            /\ q[1] - p[1] > 0
            /\ (r.num - p[2] * r.den) * (q[1] - p[1]) * v.den
                   = (q[2] - p[2]) * (v.num - p[1] * v.den) * r.den
            /\ v.num = p[1] * v.den => r = Num(p[2])

\* inside a sloping segment of a curve given out of order that has a
\* major_vph twice: the threshold is no whole number
C27_ReachInsideSegment ==
    /\ fn = "interpolate_threshold"
    /\ InRange(args.curve_points, args.major_vol)
    /\ Len(args.curve_points) = 3
    /\ args.curve_points[1][1] > args.curve_points[2][1]
    /\ args.curve_points[2][1] = args.curve_points[3][1]
    /\ args.curve_points[2][2] # args.curve_points[3][2]
    /\ result.value.kind = "num"
    /\ result.value.den # 1

\* exactly at an inner breakpoint of a curve of the tables
C27_ReachAtBreakpoint ==
    /\ fn = "interpolate_threshold"
    /\ args.curve_points \in TableCurves
    /\ InRange(args.curve_points, args.major_vol)
    /\ args.major_vol.den = 1
    /\ args.major_vol.num > LowestMajor(args.curve_points)
    /\ \E i \in DOMAIN args.curve_points :
          /\ args.curve_points[i][1] = args.major_vol.num
          /\ result.value = Num(args.curve_points[i][2])

-----------------------------------------------------------------------------
(* C28: the roles of the streets.  The major street is the one with the    *)
(* larger sum of hourly volumes over the whole series, street 1 on a tie;  *)
(* on one series, Warrants 1, 2, 3 and 7 each name that street as major    *)
(* and the other as minor and read every hour's volumes by these roles,    *)
(* and Warrant 4 takes its peak and its four-hour average on the same      *)
(* major street: the roles are the same in every evaluator of a run.       *)
C28_SameRoles ==
    LET major_col == IF Street1IsMajor THEN "Street1" ELSE "Street2"
        minor_col == IF major_col = "Street1" THEN "Street2" ELSE "Street1"
        rows == traffic_df.rows
    IN  /\ (fn \in {"evaluate_warrant1", "evaluate_warrant2", "evaluate_warrant3",
                    "evaluate_warrant7"} /\ "major_street" \in DOMAIN result) =>
               /\ result.major_street = StreetName(major_col)
               /\ result.minor_street = StreetName(minor_col)
               /\ \A i \in 1..Len(HourlyDetail) :
                     /\ HourlyDetail[i].major_vol = rows[i][major_col]
                     /\ HourlyDetail[i].minor_vol = rows[i][minor_col]
               /\ fn = "evaluate_warrant3" =>
                     \E i \in 1..Len(rows) :
                         /\ rows[i].Hour = result.peak_hour
                         /\ result.peak_major = rows[i][major_col]
                         /\ result.peak_minor = rows[i][minor_col]
        /\ (W4PastGates /\ "peak_hour_threshold" \in DOMAIN result) =>
               /\ result.peak_hour_threshold
                      = interpolate_threshold(result.peak_hour_curve,
                                              Num(MaxCol(rows, major_col)))
               /\ result.four_hour_threshold
                      = interpolate_threshold(result.four_hour_curve,
                                              MeanLargest4(rows, major_col))

\* Warrant 4 on a tie of the two sums where the streets differ in their
\* largest hour: the peak threshold is the one at street 1's largest hour
C28_ReachTieInW4 ==
    /\ W4PastGates
    /\ SumCol(traffic_df.rows, "Street1") = SumCol(traffic_df.rows, "Street2")
    /\ MaxCol(traffic_df.rows, "Street1") # MaxCol(traffic_df.rows, "Street2")
    /\ result.peak_hour_threshold.kind = "num"
    /\ result.peak_hour_threshold
           # interpolate_threshold(result.peak_hour_curve,
                                   Num(MaxCol(traffic_df.rows, "Street2")))

\* street 2 carries more over the day and Warrant 7 has read every hour
C28_ReachStreet2Major ==
    /\ fn = "evaluate_warrant7"
    /\ "major_street" \in DOMAIN result
    /\ result.major_street = "Street 2"
    /\ Len(HourlyDetail) = 8

-----------------------------------------------------------------------------
\* the keys and the tiers the tables are declared over
LaneKeys == {1, 2} \X {1, 2}

PairTiers == {"100", "80", "70", "56"}

CurveTiers == {"100", "70"}

\* a curve that can be interpolated on: at least one point, each further
\* along major_vph than the one before
WellFormed(curve) == curve # <<>> /\ StrictlyIncreasing(curve)

(* C29: the tables are total and well formed.  get_lane_key maps any lane  *)
(* counts from 1 up to a key of {1,2} x {1,2}, with every count of 2 or    *)
(* more in class 2; for each such key WARRANT1_THRESHOLDS holds one pair   *)
(* per condition at each of the tiers '100', '80', '70', '56', and         *)
(* WARRANT2_CURVES and WARRANT3_CURVES one curve at each of the tiers      *)
(* '100' and '70'; every curve of every table, WARRANT4_CURVES included,   *)
(* is non-empty and strictly increasing in major_vph.                      *)
C29_TablesTotal ==
    /\ fn = "get_lane_key" =>
          /\ result.key \in LaneKeys
          /\ result.key[1] = 1 <=> args.major_lanes = 1
          /\ result.key[2] = 1 <=> args.minor_lanes = 1
    /\ DOMAIN tables.WARRANT1_THRESHOLDS = {"condition_a", "condition_b"}
    /\ \A cond \in {"condition_a", "condition_b"} :
          /\ DOMAIN tables.WARRANT1_THRESHOLDS[cond] = LaneKeys
          /\ \A key \in LaneKeys :
                /\ DOMAIN tables.WARRANT1_THRESHOLDS[cond][key] = PairTiers
                /\ \A pct \in PairTiers :
                      tables.WARRANT1_THRESHOLDS[cond][key][pct] \in Nat \X Nat
    /\ \A curves \in {tables.WARRANT2_CURVES, tables.WARRANT3_CURVES} :
          /\ DOMAIN curves = CurveTiers
          /\ \A pct \in CurveTiers :
                /\ DOMAIN curves[pct] = LaneKeys
                /\ \A key \in LaneKeys : WellFormed(curves[pct][key])
    /\ DOMAIN tables.WARRANT4_CURVES
           = {"four_hour_100", "four_hour_70", "peak_hour_100", "peak_hour_70"}
    /\ \A name \in DOMAIN tables.WARRANT4_CURVES :
          WellFormed(tables.WARRANT4_CURVES[name])

\* six lanes on the major street and one on the minor: the key is (2, 1)
C29_ReachSixLanes ==
    /\ fn = "get_lane_key"
    /\ args.major_lanes = 6
    /\ args.minor_lanes = 1
    /\ result.key = <<2, 1>>

-----------------------------------------------------------------------------
\* Warrant 1 on the series and the site of the present call
W1OnSameInputs ==
    evaluate_warrant1(traffic_df, args.major_lanes, args.minor_lanes,
                      args.speed, args.population)

(* C30: Warrant 1 and Warrant 7 agree.  On a series of at least 8 rows,    *)
(* for any lane key, with no reduction of the tier (speed <= 40 and        *)
(* population >= 10000): if Warrant 1 is met, under 'A', 'B' or 'A+B',     *)
(* then condition C of Warrant 7 counts at least 8 qualifying hours, and   *)
(* with alternatives tried and 5 or more correctable crashes Warrant 7 is  *)
(* met; every Warrant 1 pair at tier '100' is at least the pair at tier    *)
(* '80' in both components.                                                *)
C30_W1MetImpliesW7 ==
    /\ \A cond \in {"condition_a", "condition_b"}, key \in {1, 2} \X {1, 2}, k \in {1, 2} :
          tables.WARRANT1_THRESHOLDS[cond][key]["100"][k]
              >= tables.WARRANT1_THRESHOLDS[cond][key]["80"][k]
    /\ (W7PastGates /\ ~ArgReduced /\ W1OnSameInputs.met = "True") =>
          /\ W1OnSameInputs.condition \in {"A", "B", "A+B"}
          /\ result.hours_meeting_volume >= 8
          /\ result.condition_c
          /\ result.met = "True"

\* Warrant 1 is met under 'B' alone, on hours that are all below the Warrant
\* 3 curve, and Warrant 7 is met on the 80% pair
C30_ReachMetUnderB ==
    /\ W7PastGates /\ ~ArgReduced
    /\ W1OnSameInputs.met = "True"
    /\ W1OnSameInputs.condition = "B"
    /\ \A i \in 1..Len(result.hourly_results) : ~result.hourly_results[i].meets_w3
    /\ result.met = "True"

\* Warrant 1 is met by the combination only
C30_ReachMetUnderCombination ==
    /\ W7PastGates /\ ~ArgReduced
    /\ W1OnSameInputs.met = "True"
    /\ W1OnSameInputs.condition = "A+B"
    /\ result.met = "True"

=============================================================================
